---- MODULE Spec2Model ----
(***************************************************************************)
(* cirquery: surface tree (AST) -> canonical tree (CIR) -> predicate.      *)
(*                                                                         *)
(* The AST is built bottom-up the way the CST visitor builds it, one       *)
(* visitor method per action, on a stack of finished sub-expressions.      *)
(* normalize (src/cir/normalize.ts) and the evaluator                      *)
(* (src/cir/evaluator.ts) are pure functions and are operators here,       *)
(* computed as the code computes them.  A thrown exception is the value    *)
(* of the call: a record of type "Error".                                  *)
(***************************************************************************)
EXTENDS Integers, Sequences, FiniteSets, TLC

VARIABLES
    stack,      \* parse: finished sub-expressions, innermost last
    nodes,      \* parse: number of AST nodes on the stack
    rich,       \* parse: how many of them are outside the core vocabulary
    pc,         \* "parsing" | "normalized" | "renormalized"; "idle" | "built" | "applied" | "mutated" | "reapplied";
                \* "ready" | "returned" | "lowered"
    targets,    \* normalize: options.textSearchTargets
    cir,        \* normalize(ast, options), or the error it raised
    cir2,       \* normalize(cir, options)
    tree,       \* buildPredicate: the canonical tree captured by the predicate
    userOptions, \* buildPredicate: the caller's options object, as it is now
    captured,   \* buildPredicate: the options captured by the predicate
    subject,    \* the record the predicate was last applied to
    outcome,    \* what that application returned or raised, and what it evaluated
    source,     \* parse: the text of the last call
    parsed,     \* parse: what that call returned or raised
    previous,   \* parse: what the call before that returned or raised
    retained,   \* parse: the parser the last call left behind
    callCount   \* parse: the calls made so far

vars == <<stack, nodes, rich, pc, targets, cir, cir2, tree, userOptions, captured, subject, outcome,
          source, parsed, previous, retained, callCount>>

(***************************************************************************)
(* Bounds of the model.                                                    *)
(***************************************************************************)
MaxNodes == 6       \* AST nodes of one parsed expression
MaxRich  == 1       \* of its leaves and calls, those outside the core vocabulary
MaxSegs  == 3       \* segments of a field path
MaxList  == 2       \* items of a value list
MaxChildren == 3    \* children of an And or Or handed to the evaluator
MaxElems == 2       \* elements of an array in a record

(***************************************************************************)
(* Generic helpers.                                                        *)
(***************************************************************************)
Nothing == [type |-> "Nothing"]

IsErr(x) == x.type = "Error"

\* The exception a sequence of calls, made left to right, ends with.
FirstErr(s) == s[CHOOSE i \in 1..Len(s) : IsErr(s[i]) /\ \A j \in 1..(i-1) : ~IsErr(s[j])]
HasErr(s) == \E i \in 1..Len(s) : IsErr(s[i])

Tail1(s) == SubSeq(s, 2, Len(s))

RECURSIVE Flatten(_)
Flatten(ss) == IF ss = <<>> THEN <<>> ELSE Head(ss) \o Flatten(Tail(ss))

(***************************************************************************)
(* Errors (src/errors/errors.ts, src/cir/normalizeErrors.ts).              *)
(***************************************************************************)
\* A message is the tuple of the parts its template joins.
PlainError(message) ==
    [type |-> "Error", class |-> "Error", code |-> "", message |-> <<message>>,
     nodeType |-> ""]

NormalizeError(message, nodeType, code) ==
    [type |-> "Error", class |-> "NormalizeError", code |-> code,
     message |-> message, nodeType |-> nodeType]

failUnsupportedNode(nodeType, detail) ==
    NormalizeError(IF detail = "" THEN <<"Unsupported node", nodeType>>
                   ELSE <<"Unsupported node", nodeType, detail>>,
                   nodeType, "E_NORMALIZE_UNSUPPORTED_NODE")

failGenericNormalize(message, nodeType) ==
    NormalizeError(<<message>>, nodeType, "E_NORMALIZE_GENERIC")

EvaluationError(message, op, code) ==
    [type |-> "Error", class |-> "EvaluationError", code |-> code,
     message |-> message, op |-> op]

failTypeMismatch(op, expected, got) ==
    EvaluationError(<<"Type mismatch for", op, "expected", expected, "got", got>>,
                    op, "E_EVAL_TYPE_MISMATCH")

(***************************************************************************)
(* Surface tree (src/ast/types.ts).                                        *)
(***************************************************************************)
PathNode(segments) == [type |-> "Path", segments |-> segments]

StringLiteralNode(v)  == [type |-> "StringLiteral", value |-> v]
NumberLiteralNode(v)  == [type |-> "NumberLiteral", value |-> v]
BooleanLiteralNode(v) == [type |-> "BooleanLiteral", value |-> v]
NullLiteralNode       == [type |-> "NullLiteral"]

LiteralTypes == {"StringLiteral", "NumberLiteral", "BooleanLiteral", "NullLiteral"}

LogicalExpression(operator, left, right) ==
    [type |-> "LogicalExpression", operator |-> operator, left |-> left, right |-> right]

UnaryExpression(argument) ==
    [type |-> "UnaryExpression", operator |-> "NOT", argument |-> argument]

ComparisonExpression(operator, left, right) ==
    [type |-> "ComparisonExpression", operator |-> operator, left |-> left, right |-> right]

TextShorthandExpression(path, value) ==
    [type |-> "TextShorthandExpression", path |-> path, value |-> value]

ComparisonShorthand(operator, value) ==
    [type |-> "ComparisonShorthand", operator |-> operator, value |-> value]

ValueListExpression(values) == [type |-> "ValueListExpression", values |-> values]

CallExpression(callee, arguments) ==
    [type |-> "CallExpression", callee |-> callee, arguments |-> arguments]

(***************************************************************************)
(* Canonical tree (src/cir/types.ts).                                      *)
(***************************************************************************)
AndNode(children) == [type |-> "And", children |-> children]
OrNode(children)  == [type |-> "Or", children |-> children]
NotNode(child)    == [type |-> "Not", child |-> child]

ComparisonNode(path, op, value) ==
    [type |-> "Comparison", path |-> path, op |-> op, value |-> value]

TextNode(path, op, value) ==
    [type |-> "Text", path |-> path, op |-> op, value |-> value]

QuantifiedNode(quantifier, path, predicate) ==
    [type |-> "Quantified", quantifier |-> quantifier, path |-> path, predicate |-> predicate]

isAnd(node)        == node.type = "And"
isOr(node)         == node.type = "Or"
isNot(node)        == node.type = "Not"
isComparison(node) == node.type = "Comparison"
isText(node)       == node.type = "Text"
isQuantified(node) == node.type = "Quantified"

CirTypes == {"And", "Or", "Not", "Comparison", "Text", "Quantified"}

(***************************************************************************)
(* normalize: AST -> CIR (src/cir/normalize.ts).                           *)
(***************************************************************************)
NoTargets == [type |-> "Undefined"]      \* options.textSearchTargets left out

\* a table without entries: no operator is inverted
noInverseOps(op) == "undefined"

\* a table that mirrors the ordering operators instead of complementing them
mirroredInverseOps(op) ==
    CASE op = "eq"  -> "neq"
      [] op = "neq" -> "eq"
      [] op = "gt"  -> "lt"
      [] op = "gte" -> "lte"
      [] op = "lt"  -> "gt"
      [] op = "lte" -> "gte"
      [] OTHER      -> "undefined"

comparisonInverseOps(op) ==
    CASE op = "eq"  -> "neq"
      [] op = "neq" -> "eq"
      [] op = "gt"  -> "lte"
      [] op = "gte" -> "lt"
      [] op = "lt"  -> "gte"
      [] op = "lte" -> "gt"
      [] OTHER      -> "undefined"

\* opMap of normalizeComparison
opMapComparison(operator) ==
    CASE operator = "="  -> "eq"
      [] operator = "!=" -> "neq"
      [] operator = ">"  -> "gt"
      [] operator = ">=" -> "gte"
      [] operator = "<"  -> "lt"
      [] operator = "<=" -> "lte"
      [] OTHER           -> "undefined"

\* opMap of normalizeTextShorthand: it has no entry for = and !=
opMapShorthand(operator) ==
    CASE operator = ">"  -> "gt"
      [] operator = ">=" -> "gte"
      [] operator = "<"  -> "lt"
      [] operator = "<=" -> "lte"
      [] OTHER           -> "undefined"

normalizeLiteral(ast) ==
    CASE ast.type = "StringLiteral"  -> StringLiteralNode(ast.value)
      [] ast.type = "NumberLiteral"  -> NumberLiteralNode(ast.value)
      [] ast.type = "BooleanLiteral" -> BooleanLiteralNode(ast.value)
      [] ast.type = "NullLiteral"    -> NullLiteralNode

normalizeTruthyField(ast) ==
    ComparisonNode(PathNode(ast.segments), "neq", NullLiteralNode)

normalizeTruthyLiteral(ast) ==
    PlainError("normalizeTruthyLiteral: literal truthiness is not defined")

\* the multi-stage wrap: one Quantified(any) for every segment but the last
RECURSIVE wrapEverySegment(_)
wrapEverySegment(node) ==
    IF node.type # "Comparison" /\ node.type # "Text" THEN node
    ELSE LET segs == node.path.segments IN
         IF Len(segs) <= 1 THEN node
         ELSE QuantifiedNode("any", PathNode(<<segs[1]>>),
                             wrapEverySegment([node EXCEPT !.path = PathNode(Tail1(segs))]))

normalizeArrayPathShortcut(node) ==
    IF node.type # "Comparison" /\ node.type # "Text" THEN node
    ELSE LET segs == node.path.segments IN
         IF Len(segs) <= 1 THEN node
         ELSE LET outerPath == PathNode(<<segs[1]>>)
                  innerPath == PathNode(Tail1(segs))
              IN IF node.type = "Text"
                 THEN QuantifiedNode("any", outerPath, TextNode(innerPath, node.op, node.value))
                 ELSE QuantifiedNode("any", outerPath,
                                     ComparisonNode(innerPath, node.op, node.value))

applyArrayWrapIfLeaf(node) ==
    IF node.type = "Text" \/ node.type = "Comparison"
    THEN normalizeArrayPathShortcut(node)
    ELSE node

ensureCirNode(node) ==
    CASE node.type = "Error"       -> node
      [] node.type = "Path"        -> normalizeTruthyField(node)
      [] node.type \in LiteralTypes -> normalizeTruthyLiteral(node)
      [] OTHER                     -> applyArrayWrapIfLeaf(node)

\* the message and the nodeType are written out in the code: both say
\* NumberLiteral, whatever node.type is
ensurePath(node) ==
    IF node.type # "Path"
    THEN NormalizeError(<<"Unsupported node type for Quantified path:", "NumberLiteral">>,
                        "NumberLiteral", "E_NORMALIZE_UNSUPPORTED_NODE")
    ELSE node

normalizeComparison(ast) ==
    LET op == opMapComparison(ast.operator) IN
    IF op = "undefined"
    THEN PlainError("Unknown comparison operator")
    ELSE ComparisonNode(PathNode(ast.left.segments), op, normalizeLiteral(ast.right))

normalizeTextShorthand(ast) ==
    LET path      == PathNode(ast.path.segments)
        valueNode == ast.value
    IN
    CASE valueNode.type = "ComparisonShorthand" ->
            ComparisonNode(path, opMapShorthand(valueNode.operator),
                           normalizeLiteral(valueNode.value))
      [] valueNode.type = "StringLiteral" ->
            TextNode(path, "contains", StringLiteralNode(valueNode.value))
      [] valueNode.type = "NumberLiteral" ->
            ComparisonNode(path, "eq", normalizeLiteral(valueNode))
      [] valueNode.type = "ValueListExpression" ->
            LET values         == valueNode.values
                allStrings     == \A i \in 1..Len(values) : values[i].type = "StringLiteral"
                allComparisons == \A i \in 1..Len(values) :
                                      values[i].type = "ComparisonShorthand"
            IN
            IF Len(values) = 0
            THEN failGenericNormalize("empty value list not allowed", "ValueListExpression")
            ELSE IF ~allStrings /\ ~allComparisons
            THEN failUnsupportedNode("ValueListExpression", "mixed types")
            ELSE IF allStrings
            THEN LET children == [i \in 1..Len(values) |->
                                    applyArrayWrapIfLeaf(
                                      TextNode(path, "contains",
                                               StringLiteralNode(values[i].value)))]
                 IN IF Len(children) = 1 THEN children[1] ELSE OrNode(children)
            ELSE LET children == [i \in 1..Len(values) |->
                                    applyArrayWrapIfLeaf(
                                      ComparisonNode(path,
                                                     opMapShorthand(values[i].operator),
                                                     normalizeLiteral(values[i].value)))]
                 IN IF Len(children) = 1 THEN children[1] ELSE AndNode(children)
      [] OTHER -> PlainError("Unsupported value type in TextShorthandExpression")

\* callee.toLowerCase() on the images the function-name tokens can have
toLowerCase(callee) ==
    CASE callee = "startsWith" -> "startswith"
      [] callee = "endsWith"   -> "endswith"
      [] callee = "CONTAINS"   -> "contains"
      [] callee = "ANY"        -> "any"
      [] OTHER                 -> callee

isTextFunc(name) == name = "contains" \/ name = "startswith" \/ name = "endswith"

\* every text function taken for contains
textOpContains(calleeLower) == "contains"

textOp(calleeLower) ==
    IF calleeLower = "contains" THEN "contains"
    ELSE IF calleeLower = "startswith" THEN "startsWith" ELSE "endsWith"

toPath(t) == IF t.type = "String" THEN PathNode(<<t.value>>) ELSE t

RECURSIVE normalizeNode(_, _), normalizeLogical(_, _), normalizeUnary(_, _),
          normalizeCall(_, _)

\* AND/OR without the flattening of the operands
normalizeLogicalNested(ast, options) ==
    LET left == ensureCirNode(normalizeNode(ast.left, options)) IN
    IF IsErr(left) THEN left
    ELSE
    LET right == ensureCirNode(normalizeNode(ast.right, options)) IN
    IF IsErr(right) THEN right
    ELSE IF ast.operator = "OR" THEN OrNode(<<left, right>>)
    ELSE AndNode(<<left, right>>)

normalizeLogical(ast, options) ==
    LET left == ensureCirNode(normalizeNode(ast.left, options)) IN
    IF IsErr(left) THEN left
    ELSE
    LET right == ensureCirNode(normalizeNode(ast.right, options)) IN
    IF IsErr(right) THEN right
    ELSE
    IF ast.operator = "OR"
    THEN IF left.type = "Or"
         THEN IF right.type = "Or"
              THEN OrNode(left.children \o right.children)
              ELSE OrNode(Append(left.children, right))
         ELSE IF right.type = "Or"
              THEN OrNode(<<left>> \o right.children)
              ELSE OrNode(<<applyArrayWrapIfLeaf(left), applyArrayWrapIfLeaf(right)>>)
    ELSE IF ast.operator = "AND"
    THEN IF left.type = "And"
         THEN IF right.type = "And"
              THEN AndNode(left.children \o right.children)
              ELSE AndNode(Append(left.children, right))
         ELSE IF right.type = "And"
              THEN AndNode(<<left>> \o right.children)
              ELSE AndNode(<<applyArrayWrapIfLeaf(left), applyArrayWrapIfLeaf(right)>>)
    ELSE PlainError("Unknown logical operator")

\* the negation before the quantifier rules: NOT over a quantifier is kept
normalizeUnaryWrapping(ast, options) ==
    LET arg == ensureCirNode(normalizeNode(ast.argument, options)) IN
    IF IsErr(arg) THEN arg
    ELSE IF isNot(arg) THEN arg.child
    ELSE IF isAnd(arg) \/ isOr(arg)
    THEN LET negatedChildren ==
                 [i \in 1..Len(arg.children) |->
                    ensureCirNode(normalizeNode(UnaryExpression(arg.children[i]), options))]
         IN IF HasErr(negatedChildren) THEN FirstErr(negatedChildren)
            ELSE IF isAnd(arg) THEN OrNode(negatedChildren) ELSE AndNode(negatedChildren)
    ELSE IF isComparison(arg) /\ comparisonInverseOps(arg.op) # "undefined"
    THEN ComparisonNode(arg.path, comparisonInverseOps(arg.op), arg.value)
    ELSE NotNode(arg)

normalizeUnary(ast, options) ==
    IF ast.operator # "NOT" THEN PlainError("Unknown unary operator")
    ELSE
    LET arg == ensureCirNode(normalizeNode(ast.argument, options)) IN
    IF IsErr(arg) THEN arg
    ELSE IF isNot(arg) THEN arg.child
    ELSE IF isAnd(arg) \/ isOr(arg)
    THEN LET negatedChildren ==
                 [i \in 1..Len(arg.children) |->
                    ensureCirNode(normalizeNode(UnaryExpression(arg.children[i]), options))]
         IN IF HasErr(negatedChildren) THEN FirstErr(negatedChildren)
            ELSE IF isAnd(arg) THEN OrNode(negatedChildren) ELSE AndNode(negatedChildren)
    ELSE IF isComparison(arg)
    THEN LET invertedOp == comparisonInverseOps(arg.op) IN
         IF invertedOp # "undefined"
         THEN ComparisonNode(arg.path, invertedOp, arg.value)
         ELSE NotNode(arg)
    ELSE IF arg.type = "Quantified" /\ arg.quantifier = "any"
    THEN QuantifiedNode("none", arg.path, arg.predicate)
    ELSE IF arg.type = "Quantified" /\ arg.quantifier = "all"
    THEN QuantifiedNode("any", arg.path, NotNode(arg.predicate))
    ELSE IF arg.type = "Quantified" /\ arg.quantifier = "none"
    THEN QuantifiedNode("any", arg.path, arg.predicate)
    ELSE NotNode(arg)

normalizeCall(ast, options) ==
    LET calleeLower == toLowerCase(ast.callee)
        args        == ast.arguments
    IN
    IF isTextFunc(calleeLower)
    THEN IF Len(args) = 2
         THEN LET normalizedArg1 == normalizeNode(args[1], options) IN
              IF IsErr(normalizedArg1) THEN normalizedArg1
              ELSE
              LET normalizedArg2 == normalizeNode(args[2], options) IN
              IF IsErr(normalizedArg2) THEN normalizedArg2
              ELSE
              LET path == ensurePath(normalizedArg1) IN
              IF IsErr(path) THEN path
              ELSE IF normalizedArg2.type # "StringLiteral"
              THEN PlainError("normalizeCall: text functions require a string literal as the second argument")
              ELSE TextNode(path, textOp(calleeLower), normalizedArg2)
         ELSE IF Len(args) = 1
         THEN LET normalizedArg1 == normalizeNode(args[1], options) IN
              IF IsErr(normalizedArg1) THEN normalizedArg1
              ELSE IF normalizedArg1.type # "StringLiteral"
              THEN PlainError("normalizeCall: text functions require a string literal as the argument")
              ELSE IF options.textSearchTargets = NoTargets
                      \/ options.textSearchTargets = [type |-> "Targets", list |-> <<>>]
              THEN PlainError("normalizeCall: full-text search targets not configured")
              ELSE LET list  == options.textSearchTargets.list
                       nodes_ == [i \in 1..Len(list) |->
                                    TextNode(toPath(list[i]), textOp(calleeLower),
                                             normalizedArg1)]
                   IN IF Len(nodes_) = 1 THEN nodes_[1] ELSE OrNode(nodes_)
         ELSE PlainError("normalizeCall: expects 1 or 2 arguments")
    ELSE IF calleeLower = "any" \/ calleeLower = "all" \/ calleeLower = "none"
    THEN IF Len(args) # 2
         THEN PlainError("normalizeCall: expects 2 arguments: (path, predicateExpr)")
         ELSE LET normalizedArg1 == normalizeNode(args[1], options) IN
              IF IsErr(normalizedArg1) THEN normalizedArg1
              ELSE
              LET normalizedArg2 == normalizeNode(args[2], options) IN
              IF IsErr(normalizedArg2) THEN normalizedArg2
              ELSE
              LET path == ensurePath(normalizedArg1) IN
              IF IsErr(path) THEN path
              ELSE
              LET predicate == ensureCirNode(normalizedArg2) IN
              IF IsErr(predicate) THEN predicate
              ELSE QuantifiedNode(calleeLower, path, predicate)
    ELSE PlainError("normalizeCall: unsupported function")

normalizeNode(ast, options) ==
    CASE ast.type = "LogicalExpression"       -> normalizeLogical(ast, options)
      [] ast.type = "UnaryExpression"         -> normalizeUnary(ast, options)
      [] ast.type = "ComparisonExpression"    -> normalizeComparison(ast)
      [] ast.type = "TextShorthandExpression" -> normalizeTextShorthand(ast)
      [] ast.type = "CallExpression"          -> normalizeCall(ast, options)
      [] ast.type = "Path"                    -> PathNode(ast.segments)
      [] ast.type \in LiteralTypes            -> normalizeLiteral(ast)
      [] ast.type \in CirTypes                -> ast
      [] OTHER                                -> failUnsupportedNode(ast.type, "")

normalize(ast, options) == ensureCirNode(normalizeNode(ast, options))


(***************************************************************************)
(* Evaluator: CIR -> predicate (src/cir/evaluator.ts).                     *)
(*                                                                         *)
(* JavaScript values are tagged records; the value of a string is the      *)
(* sequence of its characters.  A call of the evaluator yields what it     *)
(* returned or the error it threw, with the calls of evalNode it made, in  *)
(* order, so that what was and was not evaluated can be read off.          *)
(***************************************************************************)
Undefined  == [type |-> "undefined"]
Null       == [type |-> "null"]
NaN        == [type |-> "NaN"]
Num(n)     == [type |-> "number", value |-> n]
Str(s)     == [type |-> "string", value |-> s]
Bool(b)    == [type |-> "boolean", value |-> b]
Arr(items) == [type |-> "array", items |-> items]
Obj(fields) == [type |-> "object", fields |-> fields]

typeof(v) ==
    CASE v.type \in {"number", "NaN"} -> "number"
      [] v.type = "string"            -> "string"
      [] v.type = "boolean"           -> "boolean"
      [] v.type = "undefined"         -> "undefined"
      [] OTHER                        -> "object"

isArray(v) == v.type = "array"

\* cur == null
isNullish(v) == v.type \in {"null", "undefined"}

\* cur[seg], for a segment that names a field
GetProperty(cur, seg) ==
    IF cur.type = "object" /\ seg \in DOMAIN cur.fields THEN cur.fields[seg] ELSE Undefined

Returned(value, calls) == [type |-> "Returned", value |-> value, calls |-> calls]
Thrown(error, calls)   == [type |-> "Error", error |-> error, calls |-> calls]

\* the loop of getByPath over the segments still to follow
RECURSIVE followSegments(_, _)
followSegments(cur, segs) ==
    IF segs = <<>> THEN cur
    ELSE IF isNullish(cur) THEN Undefined
    ELSE followSegments(GetProperty(cur, Head(segs)), Tail(segs))

\* getByPath before the reserved segment: value is a field like any other
getByPathPlain(obj, path) == followSegments(obj, path.segments)

getByPath(obj, path) ==
    LET segs == path.segments IN
    IF Len(segs) > 0 /\ segs[1] = "value"
    THEN IF Len(segs) = 1 THEN obj ELSE followSegments(obj, Tail(segs))
    ELSE followSegments(obj, segs)

literalToJs(lit) ==
    CASE lit.type = "StringLiteral"  -> Str(lit.value)
      [] lit.type = "NumberLiteral"  -> Num(lit.value)
      [] lit.type = "BooleanLiteral" -> Bool(lit.value)
      [] lit.type = "NullLiteral"    -> Null
      [] OTHER                       -> PlainError("Unknown literal type")

\* a === b where b is the value of a literal: objects and arrays are equal
\* only to themselves
StrictEquals(a, b) ==
    /\ a.type = b.type
    /\ \/ a.type \in {"undefined", "null"}
       \/ a.type \in {"number", "string", "boolean"} /\ a.value = b.value

eq(a, b) ==
    IF a.type = "null" /\ b.type = "null" THEN TRUE
    ELSE IF a.type = "NaN" \/ b.type = "NaN" THEN FALSE
    ELSE StrictEquals(a, b)

\* UTF-16 code units of the characters the model uses
CharCode(c) ==
    CASE c = "G" -> 71
      [] c = "a" -> 97
      [] c = "e" -> 101
      [] c = "g" -> 103
      [] c = "i" -> 105
      [] c = "n" -> 110
      [] c = "s" -> 115
      [] c = "t" -> 116
      [] c = "x" -> 120
      [] c = "E" -> 69
      [] c = "I" -> 73
      [] c = "E_acute" -> 201
      [] c = "e_acute" -> 233
      [] c = "I_dot"   -> 304
      [] c = "dotless_i" -> 305
      [] c = "acute"   -> 769
      [] c = "dot_above" -> 775
      [] OTHER -> 0

\* x < y on strings
RECURSIVE StringLess(_, _)
StringLess(x, y) ==
    IF y = <<>> THEN FALSE
    ELSE IF x = <<>> THEN TRUE
    ELSE IF Head(x) = Head(y) THEN StringLess(Tail(x), Tail(y))
    ELSE CharCode(Head(x)) < CharCode(Head(y))

\* the arrow functions evalComparison hands to cmp
Relation(op, a, b) ==
    IF a.type = "NaN" \/ b.type = "NaN" THEN FALSE
    ELSE IF a.type = "number"
    THEN CASE op = "gt"  -> a.value > b.value
           [] op = "gte" -> a.value >= b.value
           [] op = "lt"  -> a.value < b.value
           [] op = "lte" -> a.value <= b.value
    ELSE CASE op = "gt"  -> StringLess(b.value, a.value)
           [] op = "gte" -> ~StringLess(a.value, b.value)
           [] op = "lt"  -> StringLess(a.value, b.value)
           [] op = "lte" -> ~StringLess(b.value, a.value)

\* the cmp of the evaluator before the type check was added: false, silently
cmpSilent(op, a, b) ==
    LET ta == typeof(a)
        tb == typeof(b)
    IN IF (ta = "number" /\ tb = "number") \/ (ta = "string" /\ tb = "string")
       THEN Returned(Relation(op, a, b), <<>>)
       ELSE Returned(FALSE, <<>>)

cmp(op, a, b) ==
    LET ta == typeof(a)
        tb == typeof(b)
        isNumPair == ta = "number" /\ tb = "number"
        isStrPair == ta = "string" /\ tb = "string"
    IN IF ~isNumPair /\ ~isStrPair
       THEN Thrown(failTypeMismatch(op, "number|string", <<ta, tb>>), <<>>)
       ELSE Returned(Relation(op, a, b), <<>>)

evalComparison(node, record) ==
    LET left  == getByPath(record, node.path)
        right == literalToJs(node.value)
    IN IF IsErr(right) THEN Thrown(right, <<>>)
       ELSE CASE node.op = "eq"  -> Returned(eq(left, right), <<>>)
              [] node.op = "neq" -> Returned(~eq(left, right), <<>>)
              [] node.op \in {"gt", "gte", "lt", "lte"} -> cmp(node.op, left, right)
              [] OTHER -> Thrown(PlainError("Unknown comparison op"), <<>>)

\* String.prototype.normalize('NFD') on one character
Decompose(c) ==
    CASE c = "e_acute" -> <<"e", "acute">>
      [] c = "E_acute" -> <<"E", "acute">>
      [] c = "I_dot"   -> <<"I", "dot_above">>
      [] OTHER         -> <<c>>

\* the range u0300-u036f that the replace removes
IsCombiningMark(c) == CharCode(c) >= 768 /\ CharCode(c) <= 879

\* out.normalize('NFD').replace(/[u0300-u036f]/g, '')
foldDiacritics(s) ==
    SelectSeq(Flatten([i \in 1..Len(s) |-> Decompose(s[i])]),
              LAMBDA c : ~IsCombiningMark(c))

\* the language tags toLocaleLowerCase accepts; any other raises a RangeError
IsLocale(locale) == locale \in {"undefined", "tr"}

\* the lower-case mapping of one character, which may be two characters long;
\* Turkish maps I to the dotless i and I-with-dot to i
LowerChar(c, locale) ==
    CASE c = "G"       -> <<"g">>
      [] c = "E"       -> <<"e">>
      [] c = "E_acute" -> <<"e_acute">>
      [] c = "I"       -> IF locale = "tr" THEN <<"dotless_i">> ELSE <<"i">>
      [] c = "I_dot"   -> IF locale = "tr" THEN <<"i">> ELSE <<"i", "dot_above">>
      [] OTHER         -> <<c>>

\* String.prototype.toLocaleLowerCase(locale), on strings that hold no
\* combining mark after an I
toLocaleLowerCase(s, locale) == Flatten([i \in 1..Len(s) |-> LowerChar(s[i], locale)])

RangeError == PlainError("Incorrect locale information provided")

\* lower-casing first, folding second
normalizeTextInputCaseFirst(s, opts) ==
    IF opts.ignoreCase /\ ~IsLocale(opts.locale) THEN Thrown(RangeError, <<>>)
    ELSE LET lowered == IF opts.ignoreCase THEN toLocaleLowerCase(s, opts.locale) ELSE s
         IN Returned(IF opts.foldDiacritics THEN foldDiacritics(lowered) ELSE lowered, <<>>)

normalizeTextInput(s, opts) ==
    LET folded == IF opts.foldDiacritics THEN foldDiacritics(s) ELSE s
    IN IF opts.ignoreCase
       THEN IF IsLocale(opts.locale)
            THEN Returned(toLocaleLowerCase(folded, opts.locale), <<>>)
            ELSE Thrown(RangeError, <<>>)
       ELSE Returned(folded, <<>>)

includes(a, b) ==
    \E i \in 1..(Len(a) - Len(b) + 1) : SubSeq(a, i, i + Len(b) - 1) = b

startsWith(a, b) == Len(b) <= Len(a) /\ SubSeq(a, 1, Len(b)) = b

endsWith(a, b) == Len(b) <= Len(a) /\ SubSeq(a, Len(a) - Len(b) + 1, Len(a)) = b

\* without the typeof guard: a value that is not a string reaches normalize
evalTextUnguarded(node, record, opts) ==
    LET value  == getByPath(record, node.path)
        needle == node.value.value
    IN IF typeof(value) # "string"
       THEN Thrown(PlainError("value.normalize is not a function"), <<>>)
       ELSE LET a == normalizeTextInput(value.value, opts)
                b == normalizeTextInput(needle, opts)
            IN IF IsErr(a) THEN a
               ELSE IF IsErr(b) THEN b
               ELSE CASE node.op = "contains"   -> Returned(includes(a.value, b.value), <<>>)
                      [] node.op = "startsWith" -> Returned(startsWith(a.value, b.value), <<>>)
                      [] node.op = "endsWith"   -> Returned(endsWith(a.value, b.value), <<>>)
                      [] OTHER -> Thrown(PlainError("Unknown text op"), <<>>)

evalText(node, record, opts) ==
    LET value  == getByPath(record, node.path)
        needle == node.value.value
    IN IF typeof(value) # "string" THEN Returned(FALSE, <<>>)
       ELSE LET a == normalizeTextInput(value.value, opts)
                b == normalizeTextInput(needle, opts)
            IN IF IsErr(a) THEN a
               ELSE IF IsErr(b) THEN b
               ELSE CASE node.op = "contains"   -> Returned(includes(a.value, b.value), <<>>)
                      [] node.op = "startsWith" -> Returned(startsWith(a.value, b.value), <<>>)
                      [] node.op = "endsWith"   -> Returned(endsWith(a.value, b.value), <<>>)
                      [] OTHER -> Thrown(PlainError("Unknown text op"), <<>>)

RECURSIVE evalNode(_, _, _), evalAnd(_, _, _), evalOr(_, _, _), evalNot(_, _, _),
          evalQuantified(_, _, _), everyFrom(_, _, _, _, _), someFrom(_, _, _, _, _)

\* every child or element is evaluated before the result is decided
RECURSIVE everyEager(_, _, _, _, _)
everyEager(preds, items, i, opts, calls) ==
    IF i > Len(items) THEN Returned(TRUE, calls)
    ELSE LET r == evalNode(preds[i], items[i], opts) IN
         IF IsErr(r) THEN Thrown(r.error, Append(calls, r))
         ELSE LET rest == everyEager(preds, items, i + 1, opts, Append(calls, r)) IN
              IF IsErr(rest) THEN rest ELSE Returned(r.value /\ rest.value, rest.calls)

\* arr.every(pred) from index i on: children of an And on one record, or one
\* predicate on the elements of an array; calls are the ones made so far
everyFrom(preds, items, i, opts, calls) ==
    IF i > Len(items) THEN Returned(TRUE, calls)
    ELSE LET r == evalNode(preds[i], items[i], opts) IN
         IF IsErr(r) THEN Thrown(r.error, Append(calls, r))
         ELSE IF ~r.value THEN Returned(FALSE, Append(calls, r))
         ELSE everyFrom(preds, items, i + 1, opts, Append(calls, r))

\* arr.some(pred) from index i on
someFrom(preds, items, i, opts, calls) ==
    IF i > Len(items) THEN Returned(FALSE, calls)
    ELSE LET r == evalNode(preds[i], items[i], opts) IN
         IF IsErr(r) THEN Thrown(r.error, Append(calls, r))
         ELSE IF r.value THEN Returned(TRUE, Append(calls, r))
         ELSE someFrom(preds, items, i + 1, opts, Append(calls, r))

evalAnd(node, record, opts) ==
    everyFrom(node.children, [i \in 1..Len(node.children) |-> record], 1, opts, <<>>)

evalOr(node, record, opts) ==
    someFrom(node.children, [i \in 1..Len(node.children) |-> record], 1, opts, <<>>)

evalNot(node, record, opts) ==
    LET r == evalNode(node.child, record, opts) IN
    IF IsErr(r) THEN Thrown(r.error, <<r>>) ELSE Returned(~r.value, <<r>>)

\* all over the empty sequence taken as true
evalQuantifiedVacuous(node, record, opts) ==
    LET coll  == getByPath(record, node.path)
        arr   == IF isArray(coll) THEN coll.items
                 ELSE IF isNullish(coll) THEN <<>> ELSE <<coll>>
        preds == [i \in 1..Len(arr) |-> node.predicate]
        some  == someFrom(preds, arr, 1, opts, <<>>)
    IN CASE node.quantifier = "any"  -> some
         [] node.quantifier = "all"  -> everyFrom(preds, arr, 1, opts, <<>>)
         [] node.quantifier = "none" ->
               IF IsErr(some) THEN some ELSE Returned(~some.value, some.calls)
         [] OTHER -> Thrown(PlainError("Unknown quantifier"), <<>>)

evalQuantified(node, record, opts) ==
    LET coll  == getByPath(record, node.path)
        arr   == IF isArray(coll) THEN coll.items
                 ELSE IF isNullish(coll) THEN <<>> ELSE <<coll>>
        preds == [i \in 1..Len(arr) |-> node.predicate]
        some  == someFrom(preds, arr, 1, opts, <<>>)
    IN CASE node.quantifier = "any"  -> some
         [] node.quantifier = "all"  ->
               IF Len(arr) > 0 THEN everyFrom(preds, arr, 1, opts, <<>>)
               ELSE Returned(FALSE, <<>>)
         [] node.quantifier = "none" ->
               IF IsErr(some) THEN some ELSE Returned(~some.value, some.calls)
         [] OTHER -> Thrown(PlainError("Unknown quantifier"), <<>>)

evalNode(node, record, opts) ==
    CASE node.type = "And"        -> evalAnd(node, record, opts)
      [] node.type = "Or"         -> evalOr(node, record, opts)
      [] node.type = "Not"        -> evalNot(node, record, opts)
      [] node.type = "Comparison" -> evalComparison(node, record)
      [] node.type = "Text"       -> evalText(node, record, opts)
      [] node.type = "Quantified" -> evalQuantified(node, record, opts)
      [] OTHER -> Thrown(PlainError("Unsupported CIR node type in evaluator"), <<>>)

\* buildPredicate: the options the predicate keeps, with their defaults; the
\* record is a new object, filled field by field from the caller's
buildPredicate(opts) ==
    [ignoreCase     |-> IF "ignoreCase" \in DOMAIN opts THEN opts.ignoreCase ELSE FALSE,
     locale         |-> IF "locale" \in DOMAIN opts THEN opts.locale ELSE "undefined",
     foldDiacritics |-> IF "foldDiacritics" \in DOMAIN opts
                        THEN opts.foldDiacritics ELSE FALSE]

\* a predicate that reads the caller's object when it is applied
predicateLive(node, record, opts, callerOptions) ==
    evalNode(node, record, buildPredicate(callerOptions))

\* the function buildPredicate returns: it closes over the tree and over opts,
\* and has no reference to the caller's object
predicate(node, record, opts, callerOptions) == evalNode(node, record, opts)

(***************************************************************************)
(* Inputs: what the lexer and parser can hand to the visitor.  The core    *)
(* vocabulary is used freely; of the rest (every operator, literal type,   *)
(* value list, text call, odd quantifier argument) an expression holds at  *)
(* most MaxRich.                                                           *)
(***************************************************************************)
SegNames == <<"a", "b", "c", "d", "e", "f">>

\* a, a.b, a.b.c, ...
FieldPaths == { PathNode(SubSeq(SegNames, 1, k)) : k \in 1..MaxSegs }
PathA      == PathNode(<<"a">>)

\* String values are sequences of characters.
Literals == { StringLiteralNode(<<"s">>), NumberLiteralNode(1),
              BooleanLiteralNode(TRUE), NullLiteralNode }

ComparisonOperators == {"=", "!=", ">", ">=", "<", "<="}

CompShorthands == { ComparisonShorthand(o, NumberLiteralNode(1)) : o \in ComparisonOperators }

ListItems == { StringLiteralNode(<<"s">>), NumberLiteralNode(1),
               ComparisonShorthand(">", NumberLiteralNode(1)),
               ComparisonShorthand("<=", NumberLiteralNode(2)) }

SeqsUpTo(S, n) == UNION { [1..k -> S] : k \in 1..n }

\* value lists whose items differ, so that their order shows: ("s", "t"),
\* ("t", "s"), (>1, <=2), (<=2, >1)
OrderedLists ==
    { ValueListExpression(<<StringLiteralNode(<<"s">>), StringLiteralNode(<<"t">>)>>),
      ValueListExpression(<<StringLiteralNode(<<"t">>), StringLiteralNode(<<"s">>)>>),
      ValueListExpression(<<ComparisonShorthand(">", NumberLiteralNode(1)),
                            ComparisonShorthand("<=", NumberLiteralNode(2))>>),
      ValueListExpression(<<ComparisonShorthand("<=", NumberLiteralNode(2)),
                            ComparisonShorthand(">", NumberLiteralNode(1))>>) }

\* ValueListExpression.operator is optional: the value lists a caller of
\* normalize can build with it set
ExplicitLists ==
    { [type |-> "ValueListExpression", values |-> list.values, operator |-> operator] :
        list \in OrderedLists, operator \in {"AND", "OR"} }

TextCallees       == {"contains", "startsWith", "endsWith"}
QuantifierCallees == {"any", "all", "none"}

TargetOptions ==
    { NoTargets,
      [type |-> "Targets", list |-> <<>>],
      [type |-> "Targets", list |-> <<[type |-> "String", value |-> "n"]>>],
      [type |-> "Targets", list |-> <<PathNode(<<"a", "b">>)>>],
      [type |-> "Targets", list |-> <<[type |-> "String", value |-> "n"],
                                      PathNode(<<"a", "b">>)>>],
      [type |-> "Targets", list |-> <<PathNode(<<"a", "b">>),
                                      [type |-> "String", value |-> "n"]>>] }

RECURSIVE AstSize(_)
AstSize(n) ==
    CASE n.type = "LogicalExpression"       -> 1 + AstSize(n.left) + AstSize(n.right)
      [] n.type = "UnaryExpression"         -> 1 + AstSize(n.argument)
      [] n.type = "ComparisonExpression"    -> 3
      [] n.type = "TextShorthandExpression" -> 2 + AstSize(n.value)
      [] n.type = "ComparisonShorthand"     -> 2
      [] n.type = "ValueListExpression"     -> 1 + Len(n.values)
      [] n.type = "CallExpression"          ->
            IF Len(n.arguments) = 1 THEN 1 + AstSize(n.arguments[1])
            ELSE 1 + AstSize(n.arguments[1]) + AstSize(n.arguments[2])
      [] OTHER -> 1

\* a one-argument text call is the only reader of options.textSearchTargets
RECURSIVE ReadsTargets(_)
ReadsTargets(n) ==
    CASE n.type = "LogicalExpression" -> ReadsTargets(n.left) \/ ReadsTargets(n.right)
      [] n.type = "UnaryExpression"   -> ReadsTargets(n.argument)
      [] n.type = "CallExpression"    ->
            IF Len(n.arguments) = 1 THEN TRUE ELSE ReadsTargets(n.arguments[2])
      [] OTHER -> FALSE

(***************************************************************************)
(* parse: the visitor's methods (src/parser/visitor.ts).  Each pushes the  *)
(* node it returns; its sub-expressions are the top of the stack.  A       *)
(* parenthesised group leaves its expression as it is.                     *)
(***************************************************************************)
\* the items of a list, last written first
RECURSIVE Reversed(_)
Reversed(items) ==
    IF items = <<>> THEN <<>> ELSE Append(Reversed(Tail(items)), Head(items))

valueListReversed(items) == ValueListExpression(Reversed(items))

\* valueList: the literals first, then the comparison shorthands
valueList(items) ==
    ValueListExpression(
        SelectSeq(items, LAMBDA v : v.type \in LiteralTypes)
        \o SelectSeq(items, LAMBDA v : v.type = "ComparisonShorthand"))

CorePathBased ==
    { PathA, PathNode(<<"a", "b">>),
      ComparisonExpression(">", PathA, NumberLiteralNode(1)),
      TextShorthandExpression(PathA, StringLiteralNode(<<"s">>)) }

RichPathBased ==
    ( FieldPaths
      \cup { ComparisonExpression(operator, path, value) :
               operator \in ComparisonOperators, path \in FieldPaths, value \in Literals }
      \cup { TextShorthandExpression(path, value) :
               path \in FieldPaths,
               value \in Literals \cup CompShorthands
                         \cup { valueList(items) : items \in SeqsUpTo(ListItems, MaxList) }
                         \cup OrderedLists \cup ExplicitLists } )
    \ CorePathBased

TextCalls ==
    { CallExpression(callee, <<arg1>>) :
        callee \in TextCallees, arg1 \in { StringLiteralNode(<<"s">>), NumberLiteralNode(1) } }
    \cup
    { CallExpression(callee, <<arg1, StringLiteralNode(<<"s">>)>>) :
        callee \in TextCallees, arg1 \in FieldPaths }
    \cup
    { CallExpression("contains", <<arg1, arg2>>) :
        arg1 \in { PathA, NumberLiteralNode(1) }, arg2 \in { NumberLiteralNode(1), PathA } }

\* the first argument of any/all/none, and the image of the function name
CoreQuantifierHeads == { <<callee, PathA>> : callee \in QuantifierCallees }

RichQuantifierHeads ==
    { <<callee, NumberLiteralNode(1)>> : callee \in QuantifierCallees }
    \cup { <<"any", arg1>> :
             arg1 \in (FieldPaths \ {PathA}) \cup Literals
                      \cup { ComparisonExpression(">", PathA, NumberLiteralNode(1)) } }
    \cup { <<"ANY", PathA>> }

Cost(isCore) == IF isCore THEN 0 ELSE 1

\* every expression still on the stack needs one more node to be joined
Push(node, isCore) ==
    /\ pc = "parsing"
    /\ nodes + AstSize(node) + Len(stack) <= MaxNodes
    /\ rich + Cost(isCore) <= MaxRich
    /\ stack' = Append(stack, node)
    /\ nodes' = nodes + AstSize(node)
    /\ rich' = rich + Cost(isCore)
    /\ UNCHANGED <<pc, targets, cir, cir2, tree, userOptions, captured, subject, outcome,
                   source, parsed, previous, retained, callCount>>

ReplaceTop(k, node, size, isCore) ==
    /\ pc = "parsing"
    /\ Len(stack) >= k
    /\ nodes + size + (Len(stack) - k) <= MaxNodes
    /\ rich + Cost(isCore) <= MaxRich
    /\ stack' = Append(SubSeq(stack, 1, Len(stack) - k), node)
    /\ nodes' = nodes + size
    /\ rich' = rich + Cost(isCore)
    /\ UNCHANGED <<pc, targets, cir, cir2, tree, userOptions, captured, subject, outcome,
                   source, parsed, previous, retained, callCount>>

pathBasedExpression ==
    \/ \E node \in CorePathBased : Push(node, TRUE)
    \/ /\ pc = "parsing"
       /\ rich < MaxRich
       /\ \E node \in RichPathBased : Push(node, FALSE)

atomicExpression ==
    /\ pc = "parsing"
    /\ rich < MaxRich
    /\ \E value \in Literals : Push(value, FALSE)

notExpression ==
    /\ Len(stack) >= 1
    /\ ReplaceTop(1, UnaryExpression(stack[Len(stack)]), 1, TRUE)

andExpression ==
    /\ Len(stack) >= 2
    /\ ReplaceTop(2, LogicalExpression("AND", stack[Len(stack) - 1], stack[Len(stack)]), 1, TRUE)

orExpression ==
    /\ Len(stack) >= 2
    /\ ReplaceTop(2, LogicalExpression("OR", stack[Len(stack) - 1], stack[Len(stack)]), 1, TRUE)

quantifierCall(head, isCore) ==
    /\ Len(stack) >= 1
    /\ ReplaceTop(1, CallExpression(head[1], <<head[2], stack[Len(stack)]>>),
                  1 + AstSize(head[2]), isCore)

callExpression ==
    \/ /\ pc = "parsing"
       /\ rich < MaxRich
       /\ \E node \in TextCalls : Push(node, FALSE)
    \/ \E head \in CoreQuantifierHeads : quantifierCall(head, TRUE)
    \/ /\ pc = "parsing"
       /\ rich < MaxRich
       /\ \E head \in RichQuantifierHeads : quantifierCall(head, FALSE)

(***************************************************************************)
(* normalize, and normalize applied to its own result.                     *)
(***************************************************************************)
Normalize ==
    /\ pc = "parsing"
    /\ Len(stack) = 1
    /\ \E t \in (IF ReadsTargets(stack[1]) THEN TargetOptions ELSE {NoTargets}) :
          /\ targets' = t
          /\ cir' = normalize(stack[1], [textSearchTargets |-> t])
    /\ pc' = "normalized"
    /\ UNCHANGED <<stack, nodes, rich, cir2, tree, userOptions, captured, subject, outcome,
                   source, parsed, previous, retained, callCount>>

Renormalize ==
    /\ pc = "normalized"
    /\ ~IsErr(cir)
    /\ cir2' = normalize(cir, [textSearchTargets |-> targets])
    /\ pc' = "renormalized"
    /\ UNCHANGED <<stack, nodes, rich, targets, cir, tree, userOptions, captured, subject, outcome,
                   source, parsed, previous, retained, callCount>>

Init ==
    /\ stack = <<>>
    /\ nodes = 0
    /\ rich = 0
    /\ pc = "parsing"
    /\ targets = NoTargets
    /\ cir = Nothing
    /\ cir2 = Nothing
    /\ tree = Nothing
    /\ userOptions = Nothing
    /\ captured = Nothing
    /\ subject = Nothing
    /\ outcome = Nothing
    /\ source = <<>>
    /\ parsed = Nothing
    /\ previous = Nothing
    /\ retained = [errors |-> <<>>]
    /\ callCount = 0

Next ==
    \/ pathBasedExpression
    \/ atomicExpression
    \/ notExpression
    \/ andExpression
    \/ orExpression
    \/ callExpression
    \/ Normalize
    \/ Renormalize

Spec == Init /\ [][Next]_vars

(***************************************************************************)
(* Evaluation: buildPredicate(cir, options), then the predicate applied to *)
(* a record.  The canonical trees are written out, as a caller of the      *)
(* evaluator may write them.                                               *)
(***************************************************************************)
gin == <<"g", "i", "n">>

Scalars == { Null, NaN, Num(1), Num(2), Bool(TRUE), Str(gin), Str(<<"x">> \o gin),
             Str(<<"G", "I_dot", "n">>), Str(<<"E_acute">>) }

Elements == { Null, Num(1), Num(2), Str(gin), Str(<<"g", "i">>), Obj([a |-> Num(2)]) }

Arrays == { Arr(<<>>) } \cup { Arr(items) : items \in SeqsUpTo(Elements, MaxElems) }

\* a record has one of the fields a, tags and value
Records ==
    { Obj([a |-> v]) :
        v \in Scalars \cup { Obj([b |-> Num(1)]), Obj([b |-> Null]), Obj([c |-> Num(1)]) } }
    \cup
    { Obj([tags |-> v]) :
        v \in Arrays \cup { Null, Num(1), Str(gin), Obj([a |-> Num(2)]) } }
    \cup
    { Obj([value |-> v]) : v \in { Num(1), Obj([a |-> Num(2)]) } }

CirOps     == {"eq", "neq", "gt", "gte", "lt", "lte"}
CirTextOps == {"contains", "startsWith", "endsWith"}
CirLiterals == { NumberLiteralNode(1), StringLiteralNode(gin),
                 BooleanLiteralNode(TRUE), NullLiteralNode }

RecordLeaves ==
    { ComparisonNode(PathNode(segs), op, lit) :
        segs \in { <<"a">>, <<"a", "b">>, <<"tags">> }, op \in CirOps, lit \in CirLiterals }
    \cup
    { TextNode(PathNode(segs), op, StringLiteralNode(gin)) :
        segs \in { <<"a">>, <<"a", "b">>, <<"tags">> }, op \in CirTextOps }
    \cup
    { TextNode(PathNode(<<"a">>), op, StringLiteralNode(needle)) :
        op \in CirTextOps, needle \in { <<"G", "i", "n">>, <<"e">> } }
    \cup
    { ComparisonNode(PathNode(<<"value">>), "eq", NumberLiteralNode(1)),
      ComparisonNode(PathNode(<<"value", "a">>), "neq", NullLiteralNode) }

ElementLeaves ==
    { ComparisonNode(PathNode(<<"value">>), "gt", NumberLiteralNode(1)),
      ComparisonNode(PathNode(<<"value">>), "eq", NumberLiteralNode(1)),
      ComparisonNode(PathNode(<<"value">>), "neq", NullLiteralNode),
      TextNode(PathNode(<<"value">>), "contains", StringLiteralNode(gin)),
      ComparisonNode(PathNode(<<"value", "a">>), "eq", NumberLiteralNode(2)),
      ComparisonNode(PathNode(<<"value", "a">>), "gt", NumberLiteralNode(1)),
      ComparisonNode(PathNode(<<"a">>), "eq", NumberLiteralNode(2)) }

QuantifiedInputs ==
    { QuantifiedNode(q, PathNode(<<f>>), pred) :
        q \in {"any", "all", "none"}, f \in {"tags", "a"},
        pred \in ElementLeaves \cup { NotNode(l) : l \in ElementLeaves } }

CoreLeaves ==
    { ComparisonNode(PathNode(<<"a">>), "gt", NumberLiteralNode(1)),
      ComparisonNode(PathNode(<<"a">>), "eq", NumberLiteralNode(1)),
      ComparisonNode(PathNode(<<"a">>), "neq", NullLiteralNode),
      TextNode(PathNode(<<"a">>), "contains", StringLiteralNode(gin)),
      QuantifiedNode("any", PathNode(<<"tags">>),
                     ComparisonNode(PathNode(<<"value">>), "gt", NumberLiteralNode(1))) }

CirInputs ==
    RecordLeaves
    \cup QuantifiedInputs
    \cup { NotNode(l) : l \in CoreLeaves }
    \cup { AndNode(children) : children \in SeqsUpTo(CoreLeaves, MaxChildren) \ [1..1 -> CoreLeaves] }
    \cup { OrNode(children) : children \in SeqsUpTo(CoreLeaves, MaxChildren) \ [1..1 -> CoreLeaves] }

RECURSIVE SubNodes(_)
SubNodes(n) ==
    {n} \cup
    CASE n.type \in {"And", "Or"} -> UNION { SubNodes(n.children[i]) : i \in 1..Len(n.children) }
      [] n.type = "Not"           -> SubNodes(n.child)
      [] n.type = "Quantified"    -> SubNodes(n.predicate)
      [] OTHER                    -> {}

OptionKeys == {"ignoreCase", "foldDiacritics"}

\* locale: left out, a language tag, or a string that is no language tag
Locales == {"undefined", "tr", "bad_tag"}

\* an options object with the flags of keys set, and the locale unless left out
EvaluateOptions(keys, locale) ==
    [k \in keys \cup (IF locale = "undefined" THEN {} ELSE {"locale"}) |->
        IF k = "locale" THEN locale ELSE TRUE]

\* evalText is the only reader of the options
ReadsOptions(node) == \E n \in SubNodes(node) : n.type = "Text"

Build ==
    /\ pc = "idle"
    /\ \E c \in CirInputs :
         \E keys \in (IF ReadsOptions(c) THEN SUBSET OptionKeys ELSE {{}}) :
           \E locale \in (IF c.type = "Text" THEN Locales ELSE {"undefined"}) :
            /\ tree' = c
            /\ userOptions' = EvaluateOptions(keys, locale)
            /\ captured' = buildPredicate(EvaluateOptions(keys, locale))
    /\ pc' = "built"
    /\ UNCHANGED <<stack, nodes, rich, targets, cir, cir2, subject, outcome,
                   source, parsed, previous, retained, callCount>>

Apply ==
    /\ pc = "built"
    /\ \E r \in Records :
          /\ subject' = r
          /\ outcome' = predicate(tree, r, captured, userOptions)
    /\ pc' = "applied"
    /\ UNCHANGED <<stack, nodes, rich, targets, cir, cir2, tree, userOptions, captured,
                   source, parsed, previous, retained, callCount>>

\* the caller sets or clears one flag of the object it gave to buildPredicate,
\* or sets or deletes its locale
Mutate ==
    /\ pc = "applied"
    /\ tree.type = "Text"
    /\ \/ \E k \in OptionKeys :
            userOptions' = [j \in DOMAIN userOptions \cup {k} |->
                              IF j = k THEN ~(k \in DOMAIN userOptions /\ userOptions[k])
                              ELSE userOptions[j]]
       \/ /\ "locale" \notin DOMAIN userOptions
          /\ userOptions' = [j \in DOMAIN userOptions \cup {"locale"} |->
                              IF j = "locale" THEN "tr" ELSE userOptions[j]]
       \/ /\ "locale" \in DOMAIN userOptions
          /\ userOptions' = [j \in DOMAIN userOptions \ {"locale"} |-> userOptions[j]]
    /\ pc' = "mutated"
    /\ UNCHANGED <<stack, nodes, rich, targets, cir, cir2, tree, captured, subject, outcome,
                   source, parsed, previous, retained, callCount>>

\* the predicate applied once more, to the same record
Reapply ==
    /\ pc = "mutated"
    /\ outcome' = predicate(tree, subject, captured, userOptions)
    /\ pc' = "reapplied"
    /\ UNCHANGED <<stack, nodes, rich, targets, cir, cir2, tree, userOptions, captured, subject,
                   source, parsed, previous, retained, callCount>>

InitEval ==
    /\ stack = <<>>
    /\ nodes = 0
    /\ rich = 0
    /\ pc = "idle"
    /\ targets = NoTargets
    /\ cir = Nothing
    /\ cir2 = Nothing
    /\ tree = Nothing
    /\ userOptions = Nothing
    /\ captured = Nothing
    /\ subject = Nothing
    /\ outcome = Nothing
    /\ source = <<>>
    /\ parsed = Nothing
    /\ previous = Nothing
    /\ retained = [errors |-> <<>>]
    /\ callCount = 0

NextEval ==
    \/ Build
    \/ Apply
    \/ Mutate
    \/ Reapply

SpecEval == InitEval /\ [][NextEval]_vars

(***************************************************************************)
(* parse (src/parser/index.ts): the lexer built from allTokens, the        *)
(* grammar of DslParser and the visitor that turns its tree into the AST.  *)
(* A text is a sequence of characters; a token image is a string, and so   *)
(* are the line and the column of a token, which are NaN for EOF.  The     *)
(* texts of the model are one line long.                                   *)
(***************************************************************************)
RECURSIVE Join(_)
Join(chars) == IF chars = <<>> THEN "" ELSE Head(chars) \o Join(Tail(chars))

UpperCase == <<"A", "B", "C", "D", "E", "F", "G", "H", "I", "J", "K", "L", "M",
               "N", "O", "P", "Q", "R", "S", "T", "U", "V", "W", "X", "Y", "Z">>
LowerCase == <<"a", "b", "c", "d", "e", "f", "g", "h", "i", "j", "k", "l", "m",
               "n", "o", "p", "q", "r", "s", "t", "u", "v", "w", "x", "y", "z">>

Range(s) == { s[i] : i \in DOMAIN s }

Letters   == Range(UpperCase) \cup Range(LowerCase)
Digits    == {"0", "1", "2", "3", "4", "5", "6", "7", "8", "9"}
HexDigits == Digits \cup {"a", "b", "c", "d", "e", "f", "A", "B", "C", "D", "E", "F"}

\* the flag i of a pattern: a letter matches in either case
FoldCase(c) ==
    IF c \in Range(UpperCase)
    THEN LowerCase[CHOOSE i \in DOMAIN UpperCase : UpperCase[i] = c]
    ELSE c

\* the token types whose pattern is one fixed string, in the order of
\* allTokens; the keywords are matched in any letter case, and nothing in
\* their patterns looks at the character that follows
FixedTokens ==
    << [name |-> "And",        pattern |-> <<"a", "n", "d">>, ignoreCase |-> TRUE],
       [name |-> "Or",         pattern |-> <<"o", "r">>, ignoreCase |-> TRUE],
       [name |-> "Not",        pattern |-> <<"n", "o", "t">>, ignoreCase |-> TRUE],
       [name |-> "True",       pattern |-> <<"t", "r", "u", "e">>, ignoreCase |-> TRUE],
       [name |-> "False",      pattern |-> <<"f", "a", "l", "s", "e">>, ignoreCase |-> TRUE],
       [name |-> "Null",       pattern |-> <<"n", "u", "l", "l">>, ignoreCase |-> TRUE],
       [name |-> "Contains",   pattern |-> <<"c", "o", "n", "t", "a", "i", "n", "s">>,
        ignoreCase |-> TRUE],
       [name |-> "StartsWith", pattern |-> <<"s", "t", "a", "r", "t", "s", "w", "i", "t", "h">>,
        ignoreCase |-> TRUE],
       [name |-> "EndsWith",   pattern |-> <<"e", "n", "d", "s", "w", "i", "t", "h">>,
        ignoreCase |-> TRUE],
       [name |-> "Any",        pattern |-> <<"a", "n", "y">>, ignoreCase |-> TRUE],
       [name |-> "All",        pattern |-> <<"a", "l", "l">>, ignoreCase |-> TRUE],
       [name |-> "None",       pattern |-> <<"n", "o", "n", "e">>, ignoreCase |-> TRUE],
       [name |-> "GreaterThanOrEqual", pattern |-> <<">", "=">>, ignoreCase |-> FALSE],
       [name |-> "LessThanOrEqual",    pattern |-> <<"<", "=">>, ignoreCase |-> FALSE],
       [name |-> "NotEquals",          pattern |-> <<"!", "=">>, ignoreCase |-> FALSE],
       [name |-> "GreaterThan", pattern |-> <<">">>, ignoreCase |-> FALSE],
       [name |-> "LessThan",    pattern |-> <<"<">>, ignoreCase |-> FALSE],
       [name |-> "Equals",      pattern |-> <<"=">>, ignoreCase |-> FALSE],
       [name |-> "Colon",       pattern |-> <<":">>, ignoreCase |-> FALSE],
       [name |-> "LParen",      pattern |-> <<"(">>, ignoreCase |-> FALSE],
       [name |-> "RParen",      pattern |-> <<")">>, ignoreCase |-> FALSE],
       [name |-> "Comma",       pattern |-> <<",">>, ignoreCase |-> FALSE],
       [name |-> "Dot",         pattern |-> <<".">>, ignoreCase |-> FALSE] >>

IsWordChar(c) == c \in Letters \cup Digits \cup {"_"}

\* the length of the match of a fixed token type at offset i (from 1), or 0
MatchFixed(tok, text, i) ==
    LET n == Len(tok.pattern) IN
    IF /\ i + n - 1 <= Len(text)
       /\ \A k \in 1..n :
             (IF tok.ignoreCase THEN FoldCase(text[i + k - 1]) ELSE text[i + k - 1])
                = tok.pattern[k]
    THEN n ELSE 0

\* /\s+/
RECURSIVE MatchWhiteSpace(_, _)
MatchWhiteSpace(text, i) ==
    IF i <= Len(text) /\ text[i] = " " THEN 1 + MatchWhiteSpace(text, i + 1) ELSE 0

\* the body of a string literal from offset i on: the offset of the closing
\* quote, or 0.  An element of the body is an optional colon and a character
\* that is neither backslash nor quote, or a backslash followed by an optional
\* colon and one of b f n r t v " \ /, or by u and four hex digits.
RECURSIVE StringEnd(_, _)
StringEnd(text, i) ==
    IF i > Len(text) THEN 0
    ELSE IF text[i] = "\"" THEN i
    ELSE IF text[i] # "\\" THEN StringEnd(text, i + 1)
    ELSE LET escapes == {"b", "f", "n", "r", "t", "v", "\"", "\\", "/"} IN
         IF i + 1 <= Len(text) /\ text[i + 1] \in escapes
         THEN StringEnd(text, i + 2)
         ELSE IF i + 2 <= Len(text) /\ text[i + 1] = ":" /\ text[i + 2] \in escapes
         THEN StringEnd(text, i + 3)
         ELSE IF /\ i + 5 <= Len(text)
                 /\ text[i + 1] = "u"
                 /\ \A k \in 2..5 : text[i + k] \in HexDigits
         THEN StringEnd(text, i + 6)
         ELSE 0

MatchStringLiteral(text, i) ==
    IF i <= Len(text) /\ text[i] = "\""
    THEN LET end == StringEnd(text, i + 1) IN IF end = 0 THEN 0 ELSE end - i + 1
    ELSE 0

\* \d* and \d+ from offset i on
RECURSIVE MatchDigits(_, _)
MatchDigits(text, i) ==
    IF i <= Len(text) /\ text[i] \in Digits THEN 1 + MatchDigits(text, i + 1) ELSE 0

\* /-?(?:0|[1-9]\d*)(?:\.\d+)?(?:[eE][+-]?\d+)?/
MatchNumberLiteral(text, i) ==
    LET sign == IF i <= Len(text) /\ text[i] = "-" THEN 1 ELSE 0
        j    == i + sign
        int  == IF j > Len(text) \/ text[j] \notin Digits THEN 0
                ELSE IF text[j] = "0" THEN 1
                ELSE 1 + MatchDigits(text, j + 1)
        k    == j + int
        frac == IF k <= Len(text) /\ text[k] = "." /\ MatchDigits(text, k + 1) > 0
                THEN 1 + MatchDigits(text, k + 1) ELSE 0
        m    == k + frac
        esign == IF m + 1 <= Len(text) /\ text[m + 1] \in {"+", "-"} THEN 1 ELSE 0
        exp  == IF /\ m <= Len(text)
                   /\ text[m] \in {"e", "E"}
                   /\ MatchDigits(text, m + 1 + esign) > 0
                THEN 1 + esign + MatchDigits(text, m + 1 + esign) ELSE 0
    IN IF int = 0 THEN 0 ELSE sign + int + frac + exp

\* /[a-zA-Z_][a-zA-Z0-9_-]*/
RECURSIVE MatchIdentifierRest(_, _)
MatchIdentifierRest(text, i) ==
    IF i <= Len(text) /\ (IsWordChar(text[i]) \/ text[i] = "-")
    THEN 1 + MatchIdentifierRest(text, i + 1) ELSE 0

MatchIdentifier(text, i) ==
    IF i <= Len(text) /\ text[i] \in Letters \cup {"_"}
    THEN 1 + MatchIdentifierRest(text, i + 1) ELSE 0

\* the patterns tried in the order of allTokens; the first that matches gives
\* the token, whatever a later pattern would have matched
FirstFixed(text, i) ==
    LET hits == { k \in DOMAIN FixedTokens : MatchFixed(FixedTokens[k], text, i) > 0 }
    IN IF hits = {} THEN 0 ELSE CHOOSE k \in hits : \A j \in hits : k <= j

\* the token type and the length matched at offset i; length 0 if no pattern
\* matches there
MatchToken(text, i) ==
    LET ws    == MatchWhiteSpace(text, i)
        fixed == FirstFixed(text, i)
    IN IF ws > 0 THEN [name |-> "WhiteSpace", length |-> ws]
       ELSE IF fixed > 0
       THEN [name |-> FixedTokens[fixed].name,
             length |-> MatchFixed(FixedTokens[fixed], text, i)]
       ELSE IF MatchStringLiteral(text, i) > 0
       THEN [name |-> "StringLiteral", length |-> MatchStringLiteral(text, i)]
       ELSE IF MatchNumberLiteral(text, i) > 0
       THEN [name |-> "NumberLiteral", length |-> MatchNumberLiteral(text, i)]
       ELSE IF MatchIdentifier(text, i) > 0
       THEN [name |-> "Identifier", length |-> MatchIdentifier(text, i)]
       ELSE [name |-> "", length |-> 0]

Token(name, chars, column) ==
    [tokenType |-> name, image |-> Join(chars), chars |-> chars,
     startLine |-> "1", startColumn |-> ToString(column)]

\* the characters dropped from offset i on, until a pattern matches again
RECURSIVE Skipped(_, _)
Skipped(text, i) ==
    IF i > Len(text) \/ MatchToken(text, i).length > 0 THEN 0
    ELSE 1 + Skipped(text, i + 1)

\* lexer.tokenize(input): the tokens, and the errors in the order they were met
RECURSIVE tokenize(_, _, _, _)
tokenize(text, i, tokens, errors) ==
    IF i > Len(text) THEN [tokens |-> tokens, errors |-> errors]
    ELSE LET m == MatchToken(text, i) IN
         IF m.length = 0
         THEN LET n == Skipped(text, i) IN
              tokenize(text, i + n, tokens,
                       Append(errors,
                              [message |-> <<"unexpected character:", text[i],
                                             "at offset:", ToString(i - 1), "skipped", ToString(n)>>,
                               line |-> "1", column |-> ToString(i)]))
         ELSE IF m.name = "WhiteSpace"
         THEN tokenize(text, i + m.length, tokens, errors)
         ELSE tokenize(text, i + m.length,
                       Append(tokens, Token(m.name, SubSeq(text, i, i + m.length - 1), i)),
                       errors)

(***************************************************************************)
(* The visitor's helpers for literal tokens.                               *)
(***************************************************************************)
\* String.fromCharCode(parseInt(hex, 16)) on the codes the model writes
fromCharCode(hex) ==
    LET code == [i \in 1..4 |-> FoldCase(hex[i])] IN
    CASE code = <<"0", "0", "4", "1">> -> "A"
      [] code = <<"0", "0", "5", "c">> -> "\\"
      [] code = <<"0", "0", "6", "e">> -> "n"
      [] OTHER -> "u+" \o Join(code)

IsUnicodeEscape(s, i) ==
    /\ i + 5 <= Len(s)
    /\ s[i] = "\\"
    /\ s[i + 1] = "u"
    /\ \A k \in 2..5 : s[i + k] \in HexDigits

\* s.replace(/\\u([0-9a-fA-F]{4})/g, ...) from offset i on
RECURSIVE replaceUnicode(_, _)
replaceUnicode(s, i) ==
    IF i > Len(s) THEN <<>>
    ELSE IF IsUnicodeEscape(s, i)
    THEN <<fromCharCode(SubSeq(s, i + 2, i + 5))>> \o replaceUnicode(s, i + 6)
    ELSE <<s[i]>> \o replaceUnicode(s, i + 1)

\* s.replace(/\\c/g, to) for one character c, from offset i on
RECURSIVE replaceEscape(_, _, _, _)
replaceEscape(s, c, to, i) ==
    IF i > Len(s) THEN <<>>
    ELSE IF i + 1 <= Len(s) /\ s[i] = "\\" /\ s[i + 1] = c
    THEN <<to>> \o replaceEscape(s, c, to, i + 2)
    ELSE <<s[i]>> \o replaceEscape(s, c, to, i + 1)

\* the control characters are written by name
EscapeTable ==
    << <<"n", "LF">>, <<"t", "TAB">>, <<"r", "CR">>, <<"b", "BS">>, <<"f", "FF">>,
       <<"v", "VT">>, <<"\"", "\"">>, <<"\\", "\\">> >>

\* the replace calls of unquoteStringToken after the first, in their order
RECURSIVE replaceEscapes(_, _)
replaceEscapes(s, k) ==
    IF k > Len(EscapeTable) THEN s
    ELSE replaceEscapes(replaceEscape(s, EscapeTable[k][1], EscapeTable[k][2], 1), k + 1)

\* raw.slice(1, -1) and the chain of replace calls; raw is the token image
unquoteStringToken(raw) ==
    LET inner == SubSeq(raw, 2, Len(raw) - 1)
    IN replaceEscapes(replaceUnicode(inner, 1), 1)

DigitValue(c) == (CHOOSE k \in 1..10 : <<"0", "1", "2", "3", "4", "5", "6", "7", "8", "9">>[k] = c) - 1

RECURSIVE DigitsValue(_, _)
DigitsValue(chars, acc) ==
    IF chars = <<>> THEN acc ELSE DigitsValue(Tail(chars), 10 * acc + DigitValue(Head(chars)))

\* parseFloat(token.image): the integer, or the image of a number that has a
\* fraction or an exponent
parseFloat(chars) ==
    LET negative == chars[1] = "-"
        digits   == IF negative THEN Tail(chars) ELSE chars
    IN IF \A i \in DOMAIN digits : digits[i] \in Digits
       THEN (IF negative THEN 0 - DigitsValue(digits, 0) ELSE DigitsValue(digits, 0))
       ELSE Join(chars)

buildLiteralNode(token) ==
    CASE token.tokenType = "StringLiteral" -> StringLiteralNode(unquoteStringToken(token.chars))
      [] token.tokenType = "NumberLiteral" -> NumberLiteralNode(parseFloat(token.chars))
      [] token.tokenType = "True"          -> BooleanLiteralNode(TRUE)
      [] token.tokenType = "False"         -> BooleanLiteralNode(FALSE)
      [] token.tokenType = "Null"          -> NullLiteralNode
      [] OTHER -> PlainError("Unknown literal token type")

(***************************************************************************)
(* DslParser and AstBuilderVisitor: each rule is an operator from the      *)
(* tokens and an offset to the AST node its visitor method builds and the  *)
(* offset after it, or to the first exception the parser saves.            *)
(***************************************************************************)
EOF_ == [tokenType |-> "EOF", image |-> "", chars |-> <<>>,
         startLine |-> "NaN", startColumn |-> "NaN"]

LA(tokens, pos) == IF pos <= Len(tokens) THEN tokens[pos] ELSE EOF_

Ok(node, pos) == [type |-> "Ok", node |-> node, pos |-> pos]

\* a rule that raised ends the rules that called it
Then(result, Continue(_)) == IF IsErr(result) THEN result ELSE Continue(result)

MismatchedTokenException(expected, token) ==
    [type |-> "Error", name |-> "MismatchedTokenException", token |-> token,
     message |-> <<"Expecting token of type -->", expected, "<-- but found -->",
                   token.image, "<--">>]

NoViableAltException(token) ==
    [type |-> "Error", name |-> "NoViableAltException", token |-> token,
     message |-> <<"Expecting: one of these possible Token sequences:">>]

EarlyExitException(token) ==
    [type |-> "Error", name |-> "EarlyExitException", token |-> token,
     message |-> <<"Expecting: expecting at least one iteration which starts with one of these possible Token sequences::">>]

NotAllInputParsedException(token) ==
    [type |-> "Error", name |-> "NotAllInputParsedException", token |-> token,
     message |-> <<"Redundant input, expecting EOF but found:", token.image>>]

CONSUME(tokens, pos, tokType) ==
    IF LA(tokens, pos).tokenType = tokType
    THEN Ok(LA(tokens, pos), pos + 1)
    ELSE MismatchedTokenException(tokType, LA(tokens, pos))

LiteralTokens    == {"StringLiteral", "NumberLiteral", "True", "False", "Null"}
ComparisonTokens == {"Equals", "NotEquals", "GreaterThanOrEqual", "LessThanOrEqual",
                     "GreaterThan", "LessThan"}
CalleeTokens     == {"Contains", "StartsWith", "EndsWith", "Any", "All", "None"}

literal(tokens, pos) ==
    IF LA(tokens, pos).tokenType \in LiteralTokens
    THEN Ok(buildLiteralNode(LA(tokens, pos)), pos + 1)
    ELSE NoViableAltException(LA(tokens, pos))

comparisonOperator(tokens, pos) ==
    IF LA(tokens, pos).tokenType \in ComparisonTokens
    THEN Ok(LA(tokens, pos).image, pos + 1)
    ELSE NoViableAltException(LA(tokens, pos))

comparisonShorthand(tokens, pos) ==
    Then(comparisonOperator(tokens, pos), LAMBDA operator :
    Then(literal(tokens, operator.pos), LAMBDA value :
    Ok(ComparisonShorthand(operator.node, value.node), value.pos)))

\* one item of a value list
valueListItem(tokens, pos) ==
    IF LA(tokens, pos).tokenType \in LiteralTokens THEN literal(tokens, pos)
    ELSE IF LA(tokens, pos).tokenType \in ComparisonTokens
    THEN comparisonShorthand(tokens, pos)
    ELSE NoViableAltException(LA(tokens, pos))

\* the iterations of AT_LEAST_ONE_SEP after the first
RECURSIVE valueListRest(_, _, _)
valueListRest(tokens, pos, items) ==
    IF LA(tokens, pos).tokenType # "Comma" THEN Ok(items, pos)
    ELSE Then(valueListItem(tokens, pos + 1), LAMBDA item :
         valueListRest(tokens, item.pos, Append(items, item.node)))

valueListRule(tokens, pos) ==
    Then(CONSUME(tokens, pos, "LParen"), LAMBDA open :
    IF LA(tokens, open.pos).tokenType \notin LiteralTokens \cup ComparisonTokens
    THEN EarlyExitException(LA(tokens, open.pos))
    ELSE Then(valueListItem(tokens, open.pos), LAMBDA first :
         Then(valueListRest(tokens, first.pos, <<first.node>>), LAMBDA rest :
         Then(CONSUME(tokens, rest.pos, "RParen"), LAMBDA close :
         Ok(valueList(rest.node), close.pos)))))

\* the iterations of the MANY of fieldPath: the segment tokens after the first
RECURSIVE fieldPathRest(_, _, _)
fieldPathRest(tokens, pos, segs) ==
    IF LA(tokens, pos).tokenType # "Dot" THEN Ok(segs, pos)
    ELSE IF LA(tokens, pos + 1).tokenType \in {"Identifier", "StringLiteral"}
    THEN fieldPathRest(tokens, pos + 2, Append(segs, LA(tokens, pos + 1)))
    ELSE NoViableAltException(LA(tokens, pos + 1))

\* the visitor pushes the images of all Identifier tokens, then the unquoted
\* images of all StringLiteral tokens
segmentsOf(ids, quoted) ==
    [i \in 1..Len(ids) |-> ids[i].image]
    \o [i \in 1..Len(quoted) |-> Join(unquoteStringToken(quoted[i].chars))]

fieldPath(tokens, pos) ==
    Then(CONSUME(tokens, pos, "Identifier"), LAMBDA head :
    Then(fieldPathRest(tokens, head.pos, <<head.node>>), LAMBDA rest :
    Ok(PathNode(segmentsOf(SelectSeq(rest.node, LAMBDA t : t.tokenType = "Identifier"),
                           SelectSeq(rest.node, LAMBDA t : t.tokenType = "StringLiteral"))),
       rest.pos)))

\* what follows the colon of a shorthand
shorthandValue(tokens, pos) ==
    IF LA(tokens, pos).tokenType \in LiteralTokens THEN literal(tokens, pos)
    ELSE IF LA(tokens, pos).tokenType = "LParen" THEN valueListRule(tokens, pos)
    ELSE IF LA(tokens, pos).tokenType \in ComparisonTokens
    THEN comparisonShorthand(tokens, pos)
    ELSE NoViableAltException(LA(tokens, pos))

pathBasedRule(tokens, pos) ==
    Then(fieldPath(tokens, pos), LAMBDA path :
    IF LA(tokens, path.pos).tokenType \in ComparisonTokens
    THEN Then(comparisonOperator(tokens, path.pos), LAMBDA operator :
         Then(literal(tokens, operator.pos), LAMBDA value :
         Ok(ComparisonExpression(operator.node, path.node, value.node), value.pos)))
    ELSE IF LA(tokens, path.pos).tokenType = "Colon"
    THEN Then(shorthandValue(tokens, path.pos + 1), LAMBDA value :
         Ok(TextShorthandExpression(path.node, value.node), value.pos))
    ELSE path)

RECURSIVE expression(_, _), orRest(_, _, _), andRule(_, _), andRest(_, _, _),
          notRule(_, _), atomicRule(_, _), groupExpression(_, _), callRule(_, _)

\* a chain without precedence: AND and OR taken alike, from the left
RECURSIVE andRestFlat(_, _, _)
andRestFlat(tokens, pos, left) ==
    IF LA(tokens, pos).tokenType \notin {"And", "Or"} THEN Ok(left, pos)
    ELSE Then(notRule(tokens, pos + 1), LAMBDA right :
         andRestFlat(tokens, right.pos,
                     LogicalExpression(IF LA(tokens, pos).tokenType = "And"
                                       THEN "AND" ELSE "OR",
                                       left, right.node)))

\* MANY(Or andExpression): the visitor folds the right-hand sides to the left
orRest(tokens, pos, left) ==
    IF LA(tokens, pos).tokenType # "Or" THEN Ok(left, pos)
    ELSE Then(andRule(tokens, pos + 1), LAMBDA right :
         orRest(tokens, right.pos, LogicalExpression("OR", left, right.node)))

orRule(tokens, pos) ==
    Then(andRule(tokens, pos), LAMBDA lhs : orRest(tokens, lhs.pos, lhs.node))

andRest(tokens, pos, left) ==
    IF LA(tokens, pos).tokenType # "And" THEN Ok(left, pos)
    ELSE Then(notRule(tokens, pos + 1), LAMBDA right :
         andRest(tokens, right.pos, LogicalExpression("AND", left, right.node)))

andRule(tokens, pos) ==
    Then(notRule(tokens, pos), LAMBDA lhs : andRest(tokens, lhs.pos, lhs.node))

notRule(tokens, pos) ==
    IF LA(tokens, pos).tokenType = "Not"
    THEN Then(notRule(tokens, pos + 1), LAMBDA argument :
         Ok(UnaryExpression(argument.node), argument.pos))
    ELSE atomicRule(tokens, pos)

atomicRule(tokens, pos) ==
    LET next == LA(tokens, pos).tokenType IN
    IF next = "LParen" THEN groupExpression(tokens, pos)
    ELSE IF next \in CalleeTokens THEN callRule(tokens, pos)
    ELSE IF next \in LiteralTokens THEN Ok(buildLiteralNode(LA(tokens, pos)), pos + 1)
    ELSE IF next = "Identifier" THEN pathBasedRule(tokens, pos)
    ELSE NoViableAltException(LA(tokens, pos))

groupExpression(tokens, pos) ==
    Then(CONSUME(tokens, pos, "LParen"), LAMBDA open :
    Then(expression(tokens, open.pos), LAMBDA inner :
    Then(CONSUME(tokens, inner.pos, "RParen"), LAMBDA close :
    Ok(inner.node, close.pos))))

\* callExpression with callArgumentsText or callArgumentsQuantifier
callRule(tokens, pos) ==
    Then(CONSUME(tokens, pos + 1, "LParen"), LAMBDA open :
    Then(expression(tokens, open.pos), LAMBDA arg1 :
    IF /\ LA(tokens, pos).tokenType \in {"Contains", "StartsWith", "EndsWith"}
       /\ LA(tokens, arg1.pos).tokenType # "Comma"
    THEN Then(CONSUME(tokens, arg1.pos, "RParen"), LAMBDA close :
         Ok(CallExpression(LA(tokens, pos).image, <<arg1.node>>), close.pos))
    ELSE Then(CONSUME(tokens, arg1.pos, "Comma"), LAMBDA comma :
         Then(expression(tokens, comma.pos), LAMBDA arg2 :
         Then(CONSUME(tokens, arg2.pos, "RParen"), LAMBDA close :
         Ok(CallExpression(LA(tokens, pos).image, <<arg1.node, arg2.node>>),
            close.pos))))))

expression(tokens, pos) == orRule(tokens, pos)

\* parser.expression() as the top rule: input left over is an error too
topLevel(tokens) ==
    Then(expression(tokens, 1), LAMBDA cst :
    IF cst.pos <= Len(tokens) THEN NotAllInputParsedException(tokens[cst.pos])
    ELSE cst)

ParseError(message, line, column, snippet, code) ==
    [type |-> "Error", class |-> "ParseError", message |-> message, line |-> line,
     column |-> column, snippet |-> snippet, code |-> code]

\* firstSentence.toLowerCase().includes('unexpected token'): of the messages
\* of the parser only the image of the token found can hold these words
unexpectedToken ==
    <<"u", "n", "e", "x", "p", "e", "c", "t", "e", "d", " ", "t", "o", "k", "e", "n">>

IncludesUnexpectedToken(error) ==
    /\ error.name # "NoViableAltException"
    /\ error.name # "EarlyExitException"
    /\ includes([i \in 1..Len(error.token.chars) |-> FoldCase(error.token.chars[i])],
                unexpectedToken)

\* a parser that is kept from one call to the next, with the errors it saved
keptDslParser(last) == last

\* new DslParser(): every call of parse makes its own
newDslParser(last) == [errors |-> <<>>]

\* the parser after parser.input = tokens and parser.expression(); of the
\* exceptions saved during one run the first is kept
runParser(parser, tokens) ==
    LET cst == topLevel(tokens) IN
    IF IsErr(cst) THEN [errors |-> Append(parser.errors, cst), cst |-> Nothing]
    ELSE [errors |-> parser.errors, cst |-> cst.node]

\* the ParseError raised for the first error of the lexer; no parser is made
lexFailure(le, last) ==
    [result |-> ParseError(le.message, le.line, le.column, "undefined",
                           "E_PARSE_UNEXPECTED_TOKEN"),
     parser |-> last]

\* the ParseError raised for parser.errors[0]
parserFailure(firstError, parser) ==
    [result |-> ParseError(firstError.message, firstError.token.startLine,
                           firstError.token.startColumn, firstError.token.image,
                           IF IncludesUnexpectedToken(firstError)
                           THEN "E_PARSE_UNEXPECTED_TOKEN"
                           ELSE "E_PARSE_GENERIC"),
     parser |-> [errors |-> parser.errors]]

\* after parser.expression(): raise on parser.errors, else visit the CST
afterParsing(parser, tokens) ==
    IF Len(parser.errors) > 0 THEN parserFailure(parser.errors[1], parser)
    ELSE [result |-> [type |-> "Parsed", ast |-> parser.cst, tokens |-> tokens],
          parser |-> [errors |-> parser.errors]]

\* after lexer.tokenize(input): raise on lexResult.errors, else parse
afterLexing(lexResult, last) ==
    IF Len(lexResult.errors) > 0 THEN lexFailure(lexResult.errors[1], last)
    ELSE afterParsing(runParser(newDslParser(last), lexResult.tokens), lexResult.tokens)

\* parse(input): what it returns or raises, and the parser it leaves behind
parse(text, last) == afterLexing(tokenize(text, 1, <<>>, <<>>), last)

(***************************************************************************)
(* Inputs of parse: texts, written character by character.                 *)
(***************************************************************************)
MaxOperands == 4    \* operands of a chain of AND and OR
MaxPieces   == 2    \* characters and escapes between the quotes of a string
MaxCalls    == 2    \* calls of parse in a row

\* the words of a text, one space apart
RECURSIVE Spaced(_)
Spaced(words) ==
    IF Len(words) = 0 THEN <<>>
    ELSE IF Len(words) = 1 THEN words[1]
    ELSE words[1] \o <<" ">> \o Spaced(Tail(words))

wAND  == <<"A", "N", "D">>
wOR   == <<"O", "R">>
wNOT  == <<"N", "O", "T">>
wNULL == <<"n", "u", "l", "l">>
wNEQ  == <<"!", "=">>
wA    == <<"a">>

\* identifiers that begin with a keyword: notes, order, android, nullable,
\* anything, allowed, Notes
KeywordLikeWords ==
    { <<"n", "o", "t", "e", "s">>,
      <<"o", "r", "d", "e", "r">>,
      <<"a", "n", "d", "r", "o", "i", "d">>,
      <<"n", "u", "l", "l", "a", "b", "l", "e">>,
      <<"a", "n", "y", "t", "h", "i", "n", "g">>,
      <<"a", "l", "l", "o", "w", "e", "d">>,
      <<"N", "o", "t", "e", "s">> }

\* name, which begins with no keyword
PlainWord == <<"n", "a", "m", "e">>

\* w, w != null, a.w, w AND a
WordTexts ==
    UNION { { w,
              Spaced(<<w, wNEQ, wNULL>>),
              wA \o <<".">> \o w,
              Spaced(<<w, wAND, wA>>) } : w \in KeywordLikeWords \cup {PlainWord} }

\* the first paths of a, b, c, d, e, f joined by AND and OR, each possibly
\* under NOT
Operands == << <<"a">>, <<"b">>, <<"c">>, <<"d">>, <<"e">>, <<"f">> >>

ChainText(n, ops, negated) ==
    Spaced(Flatten([i \in 1..n |->
        (IF i = 1 THEN <<>> ELSE <<ops[i - 1]>>)
        \o (IF i \in negated THEN <<wNOT, Operands[i]>> ELSE <<Operands[i]>>)]))

ChainTexts ==
    UNION { { ChainText(n, ops, negated) :
                ops \in [1..(n - 1) -> {wAND, wOR}], negated \in SUBSET (1..n) } :
            n \in 1..MaxOperands }

\* what stands between the quotes: characters, escapes, and a backslash
\* before a letter that is no escape
Pieces ==
    { <<"\\", "\\">>,
      <<"n">>,
      <<"\\", "n">>,
      <<"\\", "/">>,
      <<"\\", "\"">>,
      <<"\\", "u", "0", "0", "4", "1">>,
      <<"\\", "u", "0", "0", "5", "c">>,
      <<"x">>,
      <<"\\", "q">> }

\* a: "..."
StringTexts ==
    { wA \o <<":", " ", "\"">> \o Flatten(pieces) \o <<"\"">> :
        pieces \in SeqsUpTo(Pieces, MaxPieces) }

\* one text per rule of the grammar, and texts the lexer or the parser rejects
OtherTexts ==
    { <<>>,
      <<"a">>,
      <<"a", ".", "b", ".", "c">>,
      <<"a", " ", "=", " ", "1">>,
      <<"a", " ", ">", "=", " ", "-", "1", "0">>,
      <<"a", ":", " ", "1">>,
      <<"a", ":", " ", ">", "1">>,
      <<"a", ":", " ", "(", "\"", "s", "\"", ",", " ", ">", "1", ")">>,
      <<"a", ".", "\"", "x", "\"", ".", "b", " ", "!", "=", " ", "n", "u", "l", "l">>,
      <<"c", "o", "n", "t", "a", "i", "n", "s", "(", "a", ",", " ", "\"", "s", "\"", ")">>,
      <<"c", "o", "n", "t", "a", "i", "n", "s", "(", "\"", "s", "\"", ")">>,
      <<"a", "n", "y", "(", "a", ",", " ", "b", " ", "=", " ", "1", ")">>,
      <<"(", "a", " ", "O", "R", " ", "b", ")", " ", "A", "N", "D", " ", "c">>,
      <<"n", "o", "t", " ", "a", " ", "a", "n", "d", " ", "b", " ", "o", "r", " ", "c">>,
      <<"t", "r", "u", "e">>,
      <<"a", "n", "y", "(", "a", ")">>,
      <<"a", ":", " ", "(", ")">>,
      <<"a", " ", "A", "N", "D">>,
      <<"a", ".">>,
      <<"a", " ", "=", " ", "1", ".", "5">>,
      <<"a", ":", " ", "\"", "u", "n", "e", "x", "p", "e", "c", "t", "e", "d", " ",
        "t", "o", "k", "e", "n", "\"", " ", "b">>,
      <<"a", " ", "\"", "u", "n", "e", "x", "p", "e", "c", "t", "e", "d", " ",
        "t", "o", "k", "e", "n", "\"">>,
      <<"a", " ", "#", " ", ">">>,
      <<"a", ".", "\"", "b", " ", "c", "\"", ".", "d">>,
      <<")">>,
      <<"a", " ", "#", " ", "b">> }

\* a text that parses, one the lexer rejects, three the parser rejects
FirstTexts ==
    { <<"a", " ", "=", " ", "1">>,
      <<"a", " ", "=", " ", "#">>,
      <<"a", " ", "=", " ", ">">>,
      <<"(", "a", " ", "=", " ", "1">>,
      <<"a", " ", "b">> }

Texts == WordTexts \cup ChainTexts \cup StringTexts \cup OtherTexts \cup FirstTexts

(***************************************************************************)
(* Calls of parse, one after the other, and normalize on what parse        *)
(* returned.                                                               *)
(***************************************************************************)
ParseCall ==
    /\ \/ pc = "ready"
       \/ pc = "returned" /\ callCount < MaxCalls /\ source \in FirstTexts
    /\ \E text \in Texts :
          LET r == parse(text, retained) IN
          /\ source' = text
          /\ parsed' = r.result
          /\ previous' = parsed
          /\ retained' = r.parser
    /\ callCount' = callCount + 1
    /\ pc' = "returned"
    /\ UNCHANGED <<stack, nodes, rich, targets, cir, cir2, tree, userOptions, captured,
                   subject, outcome>>

NormalizeParsed ==
    /\ pc = "returned"
    /\ parsed.type = "Parsed"
    /\ cir' = normalize(parsed.ast, [textSearchTargets |-> NoTargets])
    /\ pc' = "lowered"
    /\ UNCHANGED <<stack, nodes, rich, targets, cir2, tree, userOptions, captured,
                   subject, outcome, source, parsed, previous, retained, callCount>>

InitParse ==
    /\ stack = <<>>
    /\ nodes = 0
    /\ rich = 0
    /\ pc = "ready"
    /\ targets = NoTargets
    /\ cir = Nothing
    /\ cir2 = Nothing
    /\ tree = Nothing
    /\ userOptions = Nothing
    /\ captured = Nothing
    /\ subject = Nothing
    /\ outcome = Nothing
    /\ source = <<>>
    /\ parsed = Nothing
    /\ previous = Nothing
    /\ retained = [errors |-> <<>>]
    /\ callCount = 0

NextParse ==
    \/ ParseCall
    \/ NormalizeParsed

SpecParse == InitParse /\ [][NextParse]_vars

(***************************************************************************)
(* Properties of the canonical tree.                                       *)
(***************************************************************************)
\* normalize returned a tree for the parsed expression
Canonical == pc \in {"normalized", "renormalized"} /\ ~IsErr(cir)

\* the Not nodes that are not themselves the predicate of a Quantified node
RECURSIVE FreeNots(_)
FreeNots(n) ==
    CASE n.type \in {"And", "Or"} -> UNION { FreeNots(n.children[i]) : i \in 1..Len(n.children) }
      [] n.type = "Not"           -> {n} \cup FreeNots(n.child)
      [] n.type = "Quantified"    ->
            IF n.predicate.type = "Not" THEN FreeNots(n.predicate.child)
            ELSE FreeNots(n.predicate)
      [] OTHER                    -> {}

C2_LeafPathsHaveOneSegment ==
    Canonical =>
        \A n \in SubNodes(cir) :
            n.type \in {"Comparison", "Text"} => Len(n.path.segments) = 1

IsLeafSource(ast) ==
    \/ ast.type = "ComparisonExpression"
    \/ ast.type = "TextShorthandExpression" /\ ast.value.type # "ValueListExpression"
    \/ ast.type = "CallExpression" /\ Len(ast.arguments) = 2
         /\ isTextFunc(toLowerCase(ast.callee))

LeafSourcePath(ast) ==
    CASE ast.type = "ComparisonExpression"    -> ast.left.segments
      [] ast.type = "TextShorthandExpression" -> ast.path.segments
      [] OTHER                                -> ast.arguments[1].segments

\* the parsed expression is one comparison or text leaf on a path of two or
\* more segments, and normalize returned a tree for it
MultiSegmentLeaf ==
    /\ Canonical
    /\ IsLeafSource(stack[1])
    /\ Len(LeafSourcePath(stack[1])) >= 2

RECURSIVE NestedAny(_, _)
NestedAny(n, segs) ==
    IF Len(segs) = 1
    THEN n.type \in {"Comparison", "Text"} /\ n.path.segments = segs
    ELSE /\ n.type = "Quantified"
         /\ n.quantifier = "any"
         /\ n.path.segments = <<segs[1]>>
         /\ NestedAny(n.predicate, Tail(segs))

C4_Flattened ==
    Canonical =>
        \A n \in SubNodes(cir) :
            n.type \in {"And", "Or"} =>
                \A i \in 1..Len(n.children) : n.children[i].type # n.type

\* a chain of three operands, grouped, came out as one node of three children
C4_Witness ==
    /\ Canonical
    /\ stack[1].type = "LogicalExpression"
    /\ \/ stack[1].left.type = "LogicalExpression"
            /\ stack[1].left.operator = stack[1].operator
       \/ stack[1].right.type = "LogicalExpression"
            /\ stack[1].right.operator = stack[1].operator
    /\ cir.type \in {"And", "Or"}
    /\ Len(cir.children) = 3

\* C5 as stated: normalize applied to its own result returns it unchanged.
C5_Idempotent ==
    pc = "renormalized" => cir2 = cir

(***************************************************************************)
(* Properties of the evaluator.                                            *)
(***************************************************************************)
Applied == pc = "applied"

IsNumber(v) == v.type \in {"number", "NaN"}
IsString(v) == v.type = "string"

IsTypeMismatch(r) ==
    /\ IsErr(r)
    /\ r.error.class = "EvaluationError"
    /\ r.error.code = "E_EVAL_TYPE_MISMATCH"

\* an ordering comparison applied to a record
OrderingApplied ==
    /\ Applied
    /\ tree.type = "Comparison"
    /\ tree.op \in {"gt", "gte", "lt", "lte"}

\* C6: gt, gte, lt, lte raise EvaluationError E_EVAL_TYPE_MISMATCH whenever
\* the value found at the path and the literal are not both numbers or both
\* strings, an absent or null field included.
C6_OrderingRaisesOnMismatch ==
    OrderingApplied =>
        LET left  == getByPath(subject, tree.path)
            right == literalToJs(tree.value)
        IN ~((IsNumber(left) /\ IsNumber(right)) \/ (IsString(left) /\ IsString(right)))
           => IsTypeMismatch(outcome)

\* the field is absent, the literal is a number, and the comparison raised
C6_Witness ==
    /\ OrderingApplied
    /\ getByPath(subject, tree.path) = Undefined
    /\ tree.value.type = "NumberLiteral"
    /\ IsTypeMismatch(outcome)

\* the sequence a quantifier iterates
SequenceAt(value) ==
    IF value.type = "array" THEN value.items
    ELSE IF value.type \in {"null", "undefined"} THEN <<>>
    ELSE <<value>>

\* a quantifier applied to a record on which no element makes the predicate raise
QuantifiedApplied ==
    /\ Applied
    /\ tree.type = "Quantified"
    /\ LET elems == SequenceAt(getByPath(subject, tree.path)) IN
       \A i \in 1..Len(elems) : ~IsErr(evalNode(tree.predicate, elems[i], captured))

\* C7: any is true iff some element satisfies the predicate, all iff the
\* sequence is not empty and every element does, none iff no element does,
\* over the elements of an array, the one value that is neither null nor an
\* array, or nothing for null and absent.
C7_QuantifierSemantics ==
    QuantifiedApplied =>
        LET elems == SequenceAt(getByPath(subject, tree.path))
            sat(i) == evalNode(tree.predicate, elems[i], captured).value
        IN /\ ~IsErr(outcome)
           /\ tree.quantifier = "any" => (outcome.value <=> \E i \in 1..Len(elems) : sat(i))
           /\ tree.quantifier = "all" =>
                 (outcome.value <=> (Len(elems) > 0 /\ \A i \in 1..Len(elems) : sat(i)))
           /\ tree.quantifier = "none" => (outcome.value <=> ~\E i \in 1..Len(elems) : sat(i))

\* all over a single value that is not an array held
C7_Witness ==
    /\ QuantifiedApplied
    /\ tree.quantifier = "all"
    /\ ~(getByPath(subject, tree.path).type \in {"array", "null", "undefined"})
    /\ tree.predicate.type # "Not"
    /\ outcome.value

\* C8 as stated: where the path is missing, p = null is true and p != null is
\* false, as where it is null.
C8_AbsentEqualsNull ==
    ( /\ Applied
      /\ tree.type = "Comparison"
      /\ tree.op \in {"eq", "neq"}
      /\ tree.value.type = "NullLiteral"
      /\ getByPath(subject, tree.path) = Undefined )
    => (outcome.value <=> tree.op = "eq")

\* the index of the child or element that decides: the first that raises or
\* returns the deciding value, or one past the last
Decider(results, deciding) ==
    LET hits == { i \in 1..Len(results) :
                    IsErr(results[i]) \/ results[i].value = deciding }
    IN IF hits = {} THEN Len(results) + 1
       ELSE CHOOSE i \in hits : \A j \in hits : i <= j

\* what a left-to-right evaluation that stops at the decider leaves behind
StopsAtDecider(results, deciding) ==
    LET k == Decider(results, deciding) IN
    IF k > Len(results)
    THEN ~IsErr(outcome) /\ outcome.value = ~deciding /\ outcome.calls = results
    ELSE /\ outcome.calls = SubSeq(results, 1, k)
         /\ IF IsErr(results[k])
            THEN IsErr(outcome) /\ outcome.error = results[k].error
            ELSE ~IsErr(outcome) /\ outcome.value = deciding

ShortCircuitApplied ==
    /\ Applied
    /\ \/ tree.type \in {"And", "Or"}
       \/ tree.type = "Quantified" /\ tree.quantifier \in {"any", "all"}
             /\ Len(SequenceAt(getByPath(subject, tree.path))) > 0

\* what each child, or the predicate on each element, does when evaluated alone
Alone ==
    IF tree.type \in {"And", "Or"}
    THEN [i \in 1..Len(tree.children) |-> evalNode(tree.children[i], subject, captured)]
    ELSE LET elems == SequenceAt(getByPath(subject, tree.path)) IN
         [i \in 1..Len(elems) |-> evalNode(tree.predicate, elems[i], captured)]

\* C9: And stops at the first false child, Or at the first true child, any at
\* the first true element, all at the first false element; nothing after it
\* is evaluated, and an error raised up to it is the error of the whole.
C9_ShortCircuit ==
    ShortCircuitApplied =>
        StopsAtDecider(Alone, tree.type = "Or"
                              \/ (tree.type = "Quantified" /\ tree.quantifier = "any"))

\* an And returned false although a later child raises when evaluated alone
C9_Witness ==
    /\ ShortCircuitApplied
    /\ tree.type = "And"
    /\ ~IsErr(outcome)
    /\ ~outcome.value
    /\ \E j \in (Len(outcome.calls) + 1)..Len(tree.children) : IsTypeMismatch(Alone[j])

\* any over a path with a text test on the current element
AnyOnValueApplied ==
    /\ Applied
    /\ tree.type = "Quantified"
    /\ tree.quantifier = "any"
    /\ tree.predicate.type = "Text"
    /\ tree.predicate.path.segments = <<"value">>

\* C10: in a Quantified predicate [value] is the current element and
\* [value, tail..] is tail looked up in it: any(tags, value: "gin") holds
\* exactly where the sequence at tags has a string element containing "gin".
C10_ValueIsElement ==
    /\ AnyOnValueApplied =>
          LET elems == SequenceAt(getByPath(subject, tree.path)) IN
          /\ ~IsErr(outcome)
          /\ outcome.value <=>
                \E i \in 1..Len(elems) :
                    /\ elems[i].type = "string"
                    /\ includes(normalizeTextInput(elems[i].value, captured).value,
                                normalizeTextInput(tree.predicate.value.value, captured).value)
    /\ ( /\ Applied
         /\ tree.type = "Quantified"
         /\ tree.predicate.type = "Comparison"
         /\ Len(tree.predicate.path.segments) >= 2
         /\ tree.predicate.path.segments[1] = "value" )
       => outcome = evalNode([tree EXCEPT !.predicate.path.segments = Tail(@)],
                             subject, captured)

\* any(tags, value: "gin") held on tags with a second element "gin"
C10_Witness ==
    /\ AnyOnValueApplied
    /\ tree.path.segments = <<"tags">>
    /\ LET tags == getByPath(subject, tree.path) IN
       /\ tags.type = "array"
       /\ Len(tags.items) = 2
       /\ tags.items[1] = Num(1)
       /\ tags.items[2] = Str(gin)
    /\ ~IsErr(outcome)
    /\ outcome.value

\* a Text node, alone, has been evaluated on a record
TextApplied == Applied /\ tree.type = "Text"

\* C11: a Text node whose path leads to anything but a string (nothing, null,
\* a number, a boolean, an array, an object) evaluates to false and raises
\* nothing, whatever the operator and whatever the options.
C11_TextFalseOnNonString ==
    (TextApplied /\ typeof(getByPath(subject, tree.path)) # "string")
        => outcome = Returned(FALSE, <<>>)

\* an array under the path, case ignored under a locale that is no language tag
C11_Witness ==
    /\ TextApplied
    /\ isArray(getByPath(subject, tree.path))
    /\ captured.ignoreCase
    /\ ~IsLocale(captured.locale)
    /\ outcome = Returned(FALSE, <<>>)

\* what a text operator answers on two strings
Matches(op, a, b) ==
    CASE op = "contains"   -> includes(a, b)
      [] op = "startsWith" -> startsWith(a, b)
      [] op = "endsWith"   -> endsWith(a, b)

\* case(fold(s)), each step taken only if its option is set
FoldThenCase(s, opts) ==
    LET folded == IF opts.foldDiacritics THEN foldDiacritics(s) ELSE s
    IN IF opts.ignoreCase THEN toLocaleLowerCase(folded, opts.locale) ELSE folded

\* fold(case(s)), likewise
CaseThenFold(s, opts) ==
    LET lowered == IF opts.ignoreCase THEN toLocaleLowerCase(s, opts.locale) ELSE s
    IN IF opts.foldDiacritics THEN foldDiacritics(lowered) ELSE lowered

\* a Text node, alone, has been evaluated on a string, under a usable locale
TextOnStringApplied ==
    /\ TextApplied
    /\ typeof(getByPath(subject, tree.path)) = "string"
    /\ (captured.ignoreCase => IsLocale(captured.locale))

\* C12: the value of the record and the needle go through one pipeline,
\* diacritics folded first (if foldDiacritics) and case lowered second (if
\* ignoreCase): the operator is answered on case(fold(value)) and
\* case(fold(needle)), and on the strings as they are when both options are off.
C12_FoldThenCase ==
    TextOnStringApplied =>
        LET value  == getByPath(subject, tree.path).value
            needle == tree.value.value
        IN /\ outcome = Returned(Matches(tree.op, FoldThenCase(value, captured),
                                                  FoldThenCase(needle, captured)), <<>>)
           /\ (~captured.ignoreCase /\ ~captured.foldDiacritics)
                 => outcome = Returned(Matches(tree.op, value, needle), <<>>)

\* Turkish lower-casing after folding: the dotted capital I loses its dot and
\* becomes the dotless i, so "gin" is not found, where lower-casing first would
\* have found it
C12_Witness ==
    /\ TextOnStringApplied
    /\ captured.ignoreCase /\ captured.foldDiacritics /\ captured.locale = "tr"
    /\ tree.op = "contains"
    /\ LET value  == getByPath(subject, tree.path).value
           needle == tree.value.value
       IN /\ FoldThenCase(value, captured) # CaseThenFold(value, captured)
          /\ Matches(tree.op, CaseThenFold(value, captured), CaseThenFold(needle, captured))
          /\ outcome = Returned(FALSE, <<>>)

\* normalize has been called on the parsed expression
Normalized == pc = "normalized"

\* a literal stands where a condition is expected: as the whole expression, as
\* an operand of AND, OR or NOT, or as the predicate of a quantifier
RECURSIVE LiteralInBooleanPosition(_)
LiteralInBooleanPosition(ast) ==
    CASE ast.type \in LiteralTypes      -> TRUE
      [] ast.type = "LogicalExpression" ->
            LiteralInBooleanPosition(ast.left) \/ LiteralInBooleanPosition(ast.right)
      [] ast.type = "UnaryExpression"   -> LiteralInBooleanPosition(ast.argument)
      [] ast.type = "CallExpression"    ->
            /\ toLowerCase(ast.callee) \in QuantifierCallees
            /\ Len(ast.arguments) = 2
            /\ LiteralInBooleanPosition(ast.arguments[2])
      [] OTHER -> FALSE

\* C13: a bare literal in boolean position makes normalize raise a
\* NormalizeError whose code is E_NORMALIZE_GENERIC.
C13_BareLiteralRaisesGeneric ==
    (Normalized /\ LiteralInBooleanPosition(stack[1])) =>
        /\ IsErr(cir)
        /\ cir.class = "NormalizeError"
        /\ cir.code = "E_NORMALIZE_GENERIC"

\* C14: the colon shorthand with true, false or null on its right makes
\* normalize raise a NormalizeError whose code is E_NORMALIZE_UNSUPPORTED_NODE.
C14_BoolNullShorthandUnsupported ==
    ( /\ Normalized
      /\ stack[1].type = "TextShorthandExpression"
      /\ stack[1].value.type \in {"BooleanLiteral", "NullLiteral"} ) =>
        /\ IsErr(cir)
        /\ cir.class = "NormalizeError"
        /\ cir.code = "E_NORMALIZE_UNSUPPORTED_NODE"

\* any, all or none has been normalized with a first argument that is no path
QuantifierOnNonPath ==
    /\ Normalized
    /\ stack[1].type = "CallExpression"
    /\ toLowerCase(stack[1].callee) \in QuantifierCallees
    /\ stack[1].arguments[1].type # "Path"

\* C15: when the first argument of any, all or none is not a path, normalize
\* raises a NormalizeError with code E_NORMALIZE_UNSUPPORTED_NODE whose nodeType
\* and whose message name the type of that argument.
C15_ErrorNamesOffendingArgument ==
    QuantifierOnNonPath =>
        LET arg1 == stack[1].arguments[1]
            actual == { arg1.type, normalizeNode(arg1, [textSearchTargets |-> targets]).type }
        IN /\ IsErr(cir)
           /\ cir.class = "NormalizeError"
           /\ cir.code = "E_NORMALIZE_UNSUPPORTED_NODE"
           /\ cir.nodeType \in actual
           /\ cir.message[Len(cir.message)] \in actual

\* the options the predicate holds are those given to buildPredicate, with
\* false, false and no locale for the ones left out
DefaultsApplied ==
    /\ captured.ignoreCase =
          ("ignoreCase" \in DOMAIN userOptions /\ userOptions.ignoreCase)
    /\ captured.foldDiacritics =
          ("foldDiacritics" \in DOMAIN userOptions /\ userOptions.foldDiacritics)
    /\ ("locale" \in DOMAIN userOptions => captured.locale = userOptions.locale)
    /\ ("locale" \notin DOMAIN userOptions => captured.locale = "undefined")

\* C19: the predicate holds ignoreCase, foldDiacritics and locale as they were
\* when buildPredicate was called, with the defaults false, false and no locale
\* for options left out; after the caller changes its options object, the
\* predicate applied to the same record answers as it did before.
C19_OptionsCapturedAtBuild ==
    /\ [](pc \in {"built", "applied"} => DefaultsApplied)
    /\ [][pc = "mutated" => (pc' = "reapplied" /\ outcome' = outcome /\ captured' = captured)]_vars

\* the predicate answered again as before, although a predicate built from
\* the options as they are now answers differently
C19_Witness ==
    /\ pc = "reapplied"
    /\ userOptions # Nothing
    /\ buildPredicate(userOptions) # captured
    /\ outcome # evalNode(tree, subject, buildPredicate(userOptions))
    /\ outcome = evalNode(tree, subject, captured)

(***************************************************************************)
(* C16: the lexer matches a keyword only at a word boundary: an identifier *)
(* that begins with a keyword in any letter case (notes, order, android,   *)
(* nullable, anything, allowed, Notes) is lexed as one Identifier token    *)
(* and parses as a path of that single segment.                            *)
(***************************************************************************)
KeywordLikeWordParsed ==
    /\ pc = "returned"
    /\ source \in KeywordLikeWords

C16_KeywordsAtWordBoundary ==
    KeywordLikeWordParsed =>
        /\ parsed.type = "Parsed"
        /\ Len(parsed.tokens) = 1
        /\ parsed.tokens[1].tokenType = "Identifier"
        /\ parsed.tokens[1].image = Join(source)
        /\ parsed.ast = [type |-> "Path", segments |-> <<Join(source)>>]

(***************************************************************************)
(* C17: NOT binds tightest, then AND, then OR, and AND and OR associate to *)
(* the left: for every chain of paths a, b, c, d joined by AND and OR,     *)
(* each path possibly under NOT, the surface tree puts NOT on the single   *)
(* following path, nests every run of ANDs to the left below the ORs and   *)
(* nests the ORs to the left; the canonical tree is the Or of the runs,    *)
(* each run of two or more an And, so that a OR b AND c OR d becomes       *)
(* Or[a, And[b, c], d].                                                    *)
(***************************************************************************)
\* the words of a text, split at the spaces
RECURSIVE WordsFrom(_, _, _, _)
WordsFrom(text, i, word, done) ==
    IF i > Len(text) THEN Append(done, word)
    ELSE IF text[i] = " " THEN WordsFrom(text, i + 1, <<>>, Append(done, word))
    ELSE WordsFrom(text, i + 1, Append(word, text[i]), done)

\* how many operands a chain has, the operators between them, and which
\* operands stand under NOT
ShapeOf(text) ==
    LET words == WordsFrom(text, 1, <<>>, <<>>)
        at    == SelectSeq([k \in 1..Len(words) |-> k],
                           LAMBDA k : words[k] \notin {wAND, wOR, wNOT})
    IN [n       |-> Len(at),
        ops     |-> SelectSeq(words, LAMBDA w : w \in {wAND, wOR}),
        negated |-> { i \in 1..Len(at) : at[i] > 1 /\ words[at[i] - 1] = wNOT }]

ChainAtom(shape, i) ==
    IF i \in shape.negated
    THEN UnaryExpression(PathNode(<<Join(Operands[i])>>))
    ELSE PathNode(<<Join(Operands[i])>>)

\* the operands between one OR and the next
RECURSIVE RunsFrom(_, _, _, _)
RunsFrom(shape, i, done, current) ==
    IF i > shape.n THEN Append(done, current)
    ELSE IF shape.ops[i - 1] = wOR
    THEN RunsFrom(shape, i + 1, Append(done, current), <<ChainAtom(shape, i)>>)
    ELSE RunsFrom(shape, i + 1, done, Append(current, ChainAtom(shape, i)))

Runs(shape) == RunsFrom(shape, 2, <<>>, <<ChainAtom(shape, 1)>>)

RECURSIVE LeftNested(_, _)
LeftNested(operator, items) ==
    IF Len(items) = 1 THEN items[1]
    ELSE LogicalExpression(operator,
                           LeftNested(operator, SubSeq(items, 1, Len(items) - 1)),
                           items[Len(items)])

SurfaceOfChain(shape) ==
    LET runs == Runs(shape) IN
    LeftNested("OR", [r \in 1..Len(runs) |-> LeftNested("AND", runs[r])])

CanonicalOfChain(shape) ==
    LET runs == Runs(shape)
        leaf(atom) == normalize(atom, [textSearchTargets |-> NoTargets])
        run(r) == IF Len(runs[r]) = 1 THEN leaf(runs[r][1])
                  ELSE AndNode([k \in 1..Len(runs[r]) |-> leaf(runs[r][k])])
    IN IF Len(runs) = 1 THEN run(1)
       ELSE OrNode([r \in 1..Len(runs) |-> run(r)])

ChainParsed ==
    /\ pc \in {"returned", "lowered"}
    /\ source \in ChainTexts

C17_PrecedenceAndAssociativity ==
    ChainParsed =>
        /\ parsed.type = "Parsed"
        /\ parsed.ast = SurfaceOfChain(ShapeOf(source))
        /\ pc = "lowered" => cir = CanonicalOfChain(ShapeOf(source))

\* a OR b AND c OR d has been parsed and lowered to Or[a, And[b, c], d]
C17_Witness ==
    /\ pc = "lowered"
    /\ source = Spaced(<<Operands[1], wOR, Operands[2], wAND, Operands[3], wOR, Operands[4]>>)
    /\ cir.type = "Or"
    /\ Len(cir.children) = 3
    /\ cir.children[2].type = "And"
    /\ Len(cir.children[2].children) = 2
    /\ cir.children[1].path.segments = <<"a">>
    /\ cir.children[2].children[1].path.segments = <<"b">>
    /\ cir.children[2].children[2].path.segments = <<"c">>
    /\ cir.children[3].path.segments = <<"d">>

(***************************************************************************)
(* C18: unquoting a string literal decodes every escape of the accepted    *)
(* set exactly once, scanning from the left: the value of the literal is   *)
(* what one pass over the text between the quotes gives, where             *)
(* backslash-backslash-n is a backslash and the letter n and               *)
(* backslash-slash is one slash.                                           *)
(***************************************************************************)
\* every escape decoded where it stands, in one pass from the left
RECURSIVE unquoteOnePass(_, _)
unquoteOnePass(s, i) ==
    IF i > Len(s) THEN <<>>
    ELSE IF IsUnicodeEscape(s, i)
    THEN <<fromCharCode(SubSeq(s, i + 2, i + 5))>> \o unquoteOnePass(s, i + 6)
    ELSE IF i + 1 <= Len(s) /\ s[i] = "\\"
    THEN LET c    == s[i + 1]
             hits == { k \in DOMAIN EscapeTable : EscapeTable[k][1] = c }
         IN IF hits # {}
            THEN <<EscapeTable[CHOOSE k \in hits : TRUE][2]>> \o unquoteOnePass(s, i + 2)
            ELSE IF c = "/" THEN <<"/">> \o unquoteOnePass(s, i + 2)
            ELSE <<s[i]>> \o unquoteOnePass(s, i + 1)
    ELSE <<s[i]>> \o unquoteOnePass(s, i + 1)


StringLiteralParsed ==
    /\ pc = "returned"
    /\ source \in StringTexts
    /\ parsed.type = "Parsed"
    /\ parsed.ast.type = "TextShorthandExpression"
    /\ parsed.ast.value.type = "StringLiteral"

C18_EachEscapeDecodedOnce ==
    StringLiteralParsed =>
        LET raw == parsed.tokens[Len(parsed.tokens)].chars IN
        parsed.ast.value.value = unquoteOnePass(SubSeq(raw, 2, Len(raw) - 1), 1)

(***************************************************************************)
(* C20: parse keeps no state between calls: whatever was parsed before,    *)
(* what a call returns or raises (the surface tree and tokens, or the      *)
(* ParseError with its code, line, column and lexeme) is what parsing the  *)
(* same text as the first call gives, also right after a call that failed  *)
(* with a lex or a syntax error.                                           *)
(***************************************************************************)
FirstCallOutcome(text) == parse(text, [errors |-> <<>>]).result

C20_ParseIsStateless ==
    pc = "returned" => parsed = FirstCallOutcome(source)

\* a second call has returned a tree right after a call that raised a
\* syntax error
C20_Witness ==
    /\ pc = "returned"
    /\ callCount = 2
    /\ IsErr(previous)
    /\ previous.code = "E_PARSE_GENERIC"
    /\ previous.snippet # "undefined"
    /\ parsed.type = "Parsed"

(***************************************************************************)
(* C21: a value list that carries an explicit operator is expanded with    *)
(* it: string items with AND become And of Text(contains) nodes, and       *)
(* comparison-shorthand items with OR become Or of Comparison nodes.       *)
(***************************************************************************)
ExplicitListNormalized ==
    /\ Normalized
    /\ stack[1].type = "TextShorthandExpression"
    /\ stack[1].value \in ExplicitLists
    /\ Len(stack[1].path.segments) = 1

AllOfType(values, type) == \A i \in 1..Len(values) : values[i].type = type

C21_ExplicitOperatorUsed ==
    ExplicitListNormalized =>
        LET list == stack[1].value IN
        /\ (AllOfType(list.values, "StringLiteral") /\ list.operator = "AND") =>
              /\ cir.type = "And"
              /\ \A i \in 1..Len(cir.children) :
                    cir.children[i] = TextNode(PathNode(stack[1].path.segments), "contains",
                                               StringLiteralNode(list.values[i].value))
        /\ (AllOfType(list.values, "ComparisonShorthand") /\ list.operator = "OR") =>
              /\ cir.type = "Or"
              /\ \A i \in 1..Len(cir.children) : cir.children[i].type = "Comparison"

(***************************************************************************)
(* C22: NOT over a single-segment comparison leaves no Not: the operator   *)
(* is inverted by eq <-> neq, gt <-> lte, gte <-> lt and path and literal  *)
(* are kept; when NOT distributes over And and Or by De Morgan the same    *)
(* inversion reaches every comparison below, so NOT (a AND a > 1) becomes  *)
(* Or[Comparison(a, eq, null), Comparison(a, lte, 1)].                     *)
(***************************************************************************)
InverseOf(op) ==
    CASE op = "eq"  -> "neq"
      [] op = "neq" -> "eq"
      [] op = "gt"  -> "lte"
      [] op = "lte" -> "gt"
      [] op = "gte" -> "lt"
      [] op = "lt"  -> "gte"

\* And, Or and single-segment comparisons with one of the six operators only
\* (the shorthands p: =v and p: !=v normalize to a Comparison without op)
RECURSIVE ComparisonsOnly(_)
ComparisonsOnly(n) ==
    CASE n.type = "Comparison" ->
            /\ Len(n.path.segments) = 1
            /\ n.op \in {"eq", "neq", "gt", "gte", "lt", "lte"}
      [] n.type \in {"And", "Or"} ->
            \A i \in 1..Len(n.children) : ComparisonsOnly(n.children[i])
      [] OTHER -> FALSE

\* And and Or exchanged, every comparison inverted
RECURSIVE DeMorgan(_)
DeMorgan(n) ==
    CASE n.type = "Comparison" -> ComparisonNode(n.path, InverseOf(n.op), n.value)
      [] n.type = "And" -> OrNode([i \in 1..Len(n.children) |-> DeMorgan(n.children[i])])
      [] n.type = "Or"  -> AndNode([i \in 1..Len(n.children) |-> DeMorgan(n.children[i])])

NegatedArgument == normalize(stack[1].argument, [textSearchTargets |-> targets])

NotOverComparisons ==
    /\ Normalized
    /\ stack[1].type = "UnaryExpression"
    /\ ~IsErr(NegatedArgument)
    /\ ComparisonsOnly(NegatedArgument)

NotOverQuantifier ==
    /\ Canonical
    /\ pc = "normalized"
    /\ stack[1].type = "UnaryExpression"
    /\ stack[1].argument.type = "CallExpression"
    /\ toLowerCase(stack[1].argument.callee) \in QuantifierCallees

\* NOT over one comparison or text leaf on a path of two or more segments
NotOverLiftedLeaf ==
    /\ Canonical
    /\ pc = "normalized"
    /\ stack[1].type = "UnaryExpression"
    /\ IsLeafSource(stack[1].argument)
    /\ Len(LeafSourcePath(stack[1].argument)) >= 2

\* the predicate X' of a quantifier call: its second argument, normalized
PredicateOf(call) ==
    normalize(call.arguments[2], [textSearchTargets |-> targets])

NegatedQuantifier(call) ==
    LET p == PathNode(call.arguments[1].segments)
        q == toLowerCase(call.callee)
    IN CASE q = "any"  -> QuantifiedNode("none", p, PredicateOf(call))
         [] q = "none" -> QuantifiedNode("any", p, PredicateOf(call))
         [] q = "all"  -> QuantifiedNode("any", p, NotNode(PredicateOf(call)))

\* C23: NOT any(p, X) normalizes to none(p, X'), NOT none(p, X) to
\* any(p, X') and NOT all(p, X) to any(p, Not(X')), X' being the normalized
\* X, not inverted; NOT over a leaf on a multi-segment path normalizes to
\* Quantified(none, [head], leaf), the leaf being the one the lift of the
\* leaf alone produces, its operator unchanged.
C23_NotOverQuantifiers ==
    /\ NotOverQuantifier => cir = NegatedQuantifier(stack[1].argument)
    /\ NotOverLiftedLeaf =>
          LET lifted == normalize(stack[1].argument, [textSearchTargets |-> targets])
              segs   == LeafSourcePath(stack[1].argument)
          IN /\ lifted.type = "Quantified"
             /\ lifted.quantifier = "any"
             /\ lifted.predicate.type \in {"Comparison", "Text"}
             /\ cir = QuantifiedNode("none", PathNode(<<segs[1]>>), lifted.predicate)

\* NOT all(a, a > 1) has been normalized: gt is kept, under a Not
C23_Witness ==
    /\ pc = "normalized"
    /\ stack[1] = UnaryExpression(CallExpression("all",
            <<PathA, ComparisonExpression(">", PathA, NumberLiteralNode(1))>>))
    /\ cir = QuantifiedNode("any", PathA,
                 NotNode(ComparisonNode(PathA, "gt", NumberLiteralNode(1))))

(***************************************************************************)
(* Value lists (visitor valueList, normalizeTextShorthand).                *)
(***************************************************************************)
\* the lists that can be written with the items of the model
WrittenLists == SeqsUpTo(ListItems \cup { StringLiteralNode(<<"t">>) }, MaxList)

\* a leaf on a path of two or more segments, under any() on the first
LiftedLeaf(leaf) ==
    IF Len(leaf.path.segments) < 2 THEN leaf
    ELSE QuantifiedNode("any", PathNode(<<Head(leaf.path.segments)>>),
                        [leaf EXCEPT !.path = PathNode(Tail(leaf.path.segments))])

ListLeaf(path, item) ==
    IF item.type = "StringLiteral"
    THEN LiftedLeaf(TextNode(path, "contains", item))
    ELSE LiftedLeaf(ComparisonNode(path, opMapShorthand(item.operator), item.value))

AllOfKind(items, kind) == \A i \in 1..Len(items) : items[i].type = kind

\* items of more than one kind
MixedList(items) == \E i, j \in 1..Len(items) : items[i].type # items[j].type

\* path: (items) at the top of the expression has been normalized
ValueListNormalized ==
    /\ pc = "normalized"
    /\ stack[1].type = "TextShorthandExpression"
    /\ stack[1].value.type = "ValueListExpression"

\* C24: path: (items) with strings only normalizes to the Or of the
\* Text(contains) leaves of the items in the order they were written, with
\* comparison shorthands only to the And of their Comparison leaves in
\* that order; a list of one item gives the leaf alone; each leaf on a
\* multi-segment path is lifted on its own into Quantified(any); a list
\* with items of more than one kind raises NormalizeError
\* E_NORMALIZE_UNSUPPORTED_NODE.
C24_ValueListExpansion ==
    ValueListNormalized =>
        \A items \in WrittenLists :
            valueList(items) = stack[1].value =>
                LET path   == PathNode(stack[1].path.segments)
                    leaves == [i \in 1..Len(items) |-> ListLeaf(path, items[i])]
                IN /\ AllOfKind(items, "StringLiteral") =>
                        cir = IF Len(items) = 1 THEN leaves[1] ELSE OrNode(leaves)
                   /\ AllOfKind(items, "ComparisonShorthand") =>
                        cir = IF Len(items) = 1 THEN leaves[1] ELSE AndNode(leaves)
                   /\ MixedList(items) =>
                        /\ IsErr(cir)
                        /\ cir.class = "NormalizeError"
                        /\ cir.code = "E_NORMALIZE_UNSUPPORTED_NODE"

\* a.b: ("t", "s") has been normalized: two lifted leaves, in that order
C24_Witness ==
    /\ pc = "normalized"
    /\ stack[1] = TextShorthandExpression(PathNode(<<"a", "b">>),
            valueList(<<StringLiteralNode(<<"t">>), StringLiteralNode(<<"s">>)>>))
    /\ cir = OrNode(<<
           QuantifiedNode("any", PathA,
               TextNode(PathNode(<<"b">>), "contains", StringLiteralNode(<<"t">>))),
           QuantifiedNode("any", PathA,
               TextNode(PathNode(<<"b">>), "contains", StringLiteralNode(<<"s">>)))>>)

(***************************************************************************)
(* Text functions with a needle only (normalizeCall, one argument).        *)
(***************************************************************************)
\* contains(x), startsWith(x) or endsWith(x) at the top of the expression
NeedleOnlyCall ==
    /\ pc = "normalized"
    /\ stack[1].type = "CallExpression"
    /\ stack[1].callee \in TextCallees
    /\ Len(stack[1].arguments) = 1

TargetPath(t) == IF t.type = "String" THEN PathNode(<<t.value>>) ELSE t

Raised(message) == IsErr(cir) /\ cir.message = <<message>>

\* C25: a text function called with a needle only normalizes to the Or of
\* one Text(target, op, needle) per entry of textSearchTargets, in the
\* order of the entries; with one entry to that Text leaf alone (lifted as
\* any leaf is when the entry is a path of several segments); with no
\* textSearchTargets or an empty one normalize raises 'full-text search
\* targets not configured'; a needle that is not a string raises the
\* string-literal error whatever the targets are.
C25_NeedleOnlyExpansion ==
    NeedleOnlyCall =>
        LET needle == stack[1].arguments[1]
            leaf(t) == TextNode(TargetPath(t), stack[1].callee, needle)
        IN IF needle.type # "StringLiteral"
           THEN Raised("normalizeCall: text functions require a string literal as the argument")
           ELSE IF targets = NoTargets \/ targets.list = <<>>
           THEN Raised("normalizeCall: full-text search targets not configured")
           ELSE IF Len(targets.list) = 1
           THEN cir = LiftedLeaf(leaf(targets.list[1]))
           ELSE cir = OrNode([i \in 1..Len(targets.list) |-> leaf(targets.list[i])])

\* startsWith("s") has been expanded over the targets a.b and n, in that
\* order
C25_Witness ==
    /\ pc = "normalized"
    /\ stack[1] = CallExpression("startsWith", <<StringLiteralNode(<<"s">>)>>)
    /\ targets.type = "Targets"
    /\ cir = OrNode(<<TextNode(PathNode(<<"a", "b">>), "startsWith", StringLiteralNode(<<"s">>)),
                      TextNode(PathNode(<<"n">>), "startsWith", StringLiteralNode(<<"s">>))>>)

(***************************************************************************)
(* The error parse raises (parse, steps 1 and 2).                          *)
(***************************************************************************)
Lexed == tokenize(source, 1, <<>>, <<>>)

\* the input holds a character that starts no token
LexRejected == pc = "returned" /\ Len(Lexed.errors) > 0

\* the input lexes and the grammar rejects it
GrammarRejected ==
    /\ pc = "returned"
    /\ Len(Lexed.errors) = 0
    /\ IsErr(topLevel(Lexed.tokens))

\* C26: parse raises for the first error only, and a lexing error comes
\* before any syntax error: an input with a character that starts no token
\* raises ParseError E_PARSE_UNEXPECTED_TOKEN at the first such character,
\* whatever the parser would say of its tokens; an input that lexes and violates the grammar raises
\* ParseError E_PARSE_GENERIC with the line, column and lexeme of the token
\* of the first mismatch; neither returns a tree.
C26_FirstErrorReported ==
    /\ LexRejected =>
          /\ parsed.type = "Error"
          /\ parsed.class = "ParseError"
          /\ parsed.code = "E_PARSE_UNEXPECTED_TOKEN"
          /\ parsed.line = Lexed.errors[1].line
          /\ parsed.column = Lexed.errors[1].column
    /\ GrammarRejected =>
          LET mismatch == topLevel(Lexed.tokens).token IN
          /\ parsed.type = "Error"
          /\ parsed.class = "ParseError"
          /\ parsed.code = "E_PARSE_GENERIC"
          /\ parsed.line = mismatch.startLine
          /\ parsed.column = mismatch.startColumn
          /\ parsed.snippet = mismatch.image

(***************************************************************************)
(* Negation and the evaluator (normalizeUnary, evalNot, evalQuantified).   *)
(***************************************************************************)
PathTags  == PathNode(<<"tags">>)
PathValue == PathNode(<<"value">>)

\* expressions whose canonical tree is one of the trees handed to the
\* evaluator: a > 1, a = 1, a, a: "gin", and any/all/none over tags
NegatableLeaves ==
    { ComparisonExpression(">", PathA, NumberLiteralNode(1)),
      ComparisonExpression("=", PathA, NumberLiteralNode(1)),
      PathA,
      TextShorthandExpression(PathA, StringLiteralNode(gin)) }
    \cup
    { CallExpression(q, <<PathTags, ComparisonExpression(operator, PathValue,
                                                         NumberLiteralNode(1))>>) :
        q \in QuantifierCallees, operator \in {">", "="} }

Negatable ==
    NegatableLeaves
    \cup { LogicalExpression(operator, left, right) :
             operator \in {"AND", "OR"},
             left \in NegatableLeaves, right \in NegatableLeaves }

CanonicalOf(e) == normalize(e, [textSearchTargets |-> NoTargets])

\* the predicate of normalize(NOT e) applied to the record of the state
NegatedOutcome(e) ==
    predicate(CanonicalOf(UnaryExpression(e)), subject, captured, userOptions)

\* the tree of the state is normalize(e), and its predicate and the one of
\* normalize(NOT e) have both returned on the record
BothReturned(e) ==
    /\ pc = "applied"
    /\ tree = CanonicalOf(e)
    /\ ~IsErr(outcome)
    /\ ~IsErr(NegatedOutcome(e))

\* C27: for every expression e and record r on which neither predicate
\* raises, the predicate of normalize(NOT e) returns on r the negation of
\* what the predicate of normalize(e) returns, also when e is any, all or
\* none over an empty or absent sequence.
C27_NegationPreserved ==
    \A e \in Negatable :
        BothReturned(e) => NegatedOutcome(e).value = ~outcome.value

(***************************************************************************)
(* A bare path of two segments in boolean position (ensureCirNode,         *)
(* normalizeLogical).                                                      *)
(***************************************************************************)
PathAB == PathNode(<<"a", "b">>)

\* Quantified(any, [a], Comparison([b], neq, Null))
LiftedAB ==
    QuantifiedNode("any", PathA, ComparisonNode(PathNode(<<"b">>), "neq", NullLiteralNode))

\* the operands of a chain of one operator, in written order
RECURSIVE ChainOperands(_, _)
ChainOperands(ast, operator) ==
    IF ast.type = "LogicalExpression" /\ ast.operator = operator
    THEN ChainOperands(ast.left, operator) \o ChainOperands(ast.right, operator)
    ELSE <<ast>>

\* an AND chain or an OR chain whose operands are bare paths
ChainOfPaths ==
    /\ stack[1].type = "LogicalExpression"
    /\ \A i \in 1..Len(ChainOperands(stack[1], stack[1].operator)) :
          ChainOperands(stack[1], stack[1].operator)[i].type = "Path"

\* C28: the bare path a.b in boolean position normalizes to
\* Quantified(any, [a], Comparison([b], neq, Null)) wherever it stands: as
\* the whole expression, as the argument of NOT (which then turns any into
\* none), as the predicate of a quantifier, and as the first, a middle or
\* the last operand of an AND or OR chain.
C28_BarePathLiftedEverywhere ==
    (pc = "normalized" /\ ~IsErr(cir)) =>
        /\ stack[1] = PathAB => cir = LiftedAB
        /\ stack[1] = UnaryExpression(PathAB) =>
              cir = QuantifiedNode("none", LiftedAB.path, LiftedAB.predicate)
        /\ ( /\ stack[1].type = "CallExpression"
             /\ toLowerCase(stack[1].callee) \in QuantifierCallees
             /\ stack[1].arguments[2] = PathAB ) => cir.predicate = LiftedAB
        /\ ChainOfPaths =>
              LET operands == ChainOperands(stack[1], stack[1].operator) IN
              /\ Len(cir.children) = Len(operands)
              /\ \A i \in 1..Len(operands) :
                    operands[i] = PathAB => cir.children[i] = LiftedAB

(***************************************************************************)
(* The segments of a field path (parser fieldPath, visitor fieldPath).     *)
(***************************************************************************)
\* the segment a token of a field path stands for
SegmentOf(token) ==
    IF token.tokenType = "StringLiteral"
    THEN Join(unquoteStringToken(token.chars))
    ELSE token.image

\* the segments of the field path that begins at tokens[pos], as written:
\* the token at pos, and the token after each dot that follows
RECURSIVE WrittenSegments(_, _)
WrittenSegments(tokens, pos) ==
    IF pos + 2 <= Len(tokens) /\ tokens[pos + 1].tokenType = "Dot"
    THEN <<SegmentOf(tokens[pos])>> \o WrittenSegments(tokens, pos + 2)
    ELSE <<SegmentOf(tokens[pos])>>

\* parse returned a tree that begins with a field path
PathParsed ==
    /\ pc = "returned"
    /\ parsed.type = "Parsed"
    /\ parsed.ast.type \in {"Path", "ComparisonExpression", "TextShorthandExpression"}

LeadingPath(ast) ==
    CASE ast.type = "Path"                    -> ast
      [] ast.type = "ComparisonExpression"    -> ast.left
      [] ast.type = "TextShorthandExpression" -> ast.path

\* C29: the Path node of the surface tree has the segments of the field
\* path in the order they were written, a quoted segment unquoted in its
\* place: a."b c".d gives [a, b c, d].
C29_SegmentsInWrittenOrder ==
    PathParsed =>
        LeadingPath(parsed.ast).segments = WrittenSegments(parsed.tokens, 1)

(***************************************************************************)
(* The segment value outside a quantifier (getByPath).                     *)
(***************************************************************************)
\* a Comparison or Text on a path that starts with value has been applied
\* to a record that has a field named value
ValueFieldRead ==
    /\ pc = "applied"
    /\ tree.type \in {"Comparison", "Text"}
    /\ Head(tree.path.segments) = "value"
    /\ "value" \in DOMAIN subject.fields

\* the same leaf and the same record with the field named a instead
LeafOnA    == [tree EXCEPT !.path = PathNode(<<"a">> \o Tail(tree.path.segments))]
RecordOnA  == Obj([a |-> subject.fields.value])

\* C30: outside a Quantified predicate the segment value is a field name
\* like any other: a Comparison or Text on [value] or [value, ...] applied
\* to a record reads the record's field value, and so gives what the same
\* leaf on [a] or [a, ...] gives on the record whose field is named a.
C30_ValueIsAFieldAtTopLevel ==
    ValueFieldRead =>
        LET asField == predicate(LeafOnA, RecordOnA, captured, userOptions) IN
        /\ outcome.type = asField.type
        /\ outcome.type = "Returned" => outcome.value = asField.value

====
